---- MODULE Spec2Model ----
(***************************************************************************)
(* claw-llm-router: the request orchestrator (proxy), the provider          *)
(* registry with its four strategies, and the in-process model override     *)
(* store, as a state machine.                                               *)
(*                                                                          *)
(* Units.  Time is counted in ticks of 15 s, so the 30 s TTL of an override *)
(* is 2 ticks and the 60 s sweep period is 4 ticks.  Prompt text is a       *)
(* sequence of blocks of 250 characters, so the 500-character key prefix is *)
(* 2 blocks.                                                                *)
(***************************************************************************)
EXTENDS Integers, Sequences, FiniteSets, TLC

VARIABLES
    now,                \* Date.now(), in ticks
    nextSweep,          \* instant at which cleanupInterval fires next
    pendingOverrides,   \* model-override.ts: the Map key -> entry
    setLog,             \* history: per key, the last setPendingOverride
    nConsumes,          \* history: per key, consumes since the last set
    nHits,              \* history: per key, consumes that returned a value since the last set
    lastConsume,        \* history: the most recent consumeOverride call
    nSets,              \* history: number of direct setPendingOverride calls so far
    env,                \* external configuration: router-config tiers, credentials, primary model
    cachedIsRouterPrimary, \* providers/index.ts: the cached flag ("undefined", "true", "false")
    pc,                 \* where the request handler is: idle, resolve, loop, fetch, stream, done
    body,               \* the parsed request body
    tier,               \* the tier the fallback chain starts from
    classification,     \* history: what classify returned for this request, and
                        \* whether the LLM classifier was asked
    userText,           \* the prompt handed to classify, by what classify measures of it
    sessions,           \* the delegated-with-override calls in flight and the gateway
                        \* sessions they create: what each wrote and what its hook got
    reader,             \* convertAnthropicStream: the upstream body still to be read,
                        \* and the function's buffer, messageId and model
    tierConfig,         \* the TierConfig loaded for this request
    steps,              \* history: the handler's steps before the loop, in order
    idx,                \* position of the for-loop in the fallback chain (1-based)
    cur,                \* the attempt in flight: tier, strategy, chunks read, hook fired,
                        \* and (history) the upstream event read last and the minutes
                        \* the upstream call has been pending
    res,                \* the caller's ServerResponse
    lastError,          \* handleChatCompletion's lastError
    attempts,           \* history: the tier attempts of this request, in order
    outcome,            \* history: how the request ended
    nextRefresh,        \* when the _cacheInterval timer fires next
    cacheReadAt,        \* history: when the cached flag was read from configuration
    flagUse,            \* history: the last use of the flag by resolveProvider
    primaryEditedAt     \* history: when the operator last changed the primary model (-1: never)

storeVars == <<now, nextSweep, pendingOverrides, setLog, nConsumes, nHits, lastConsume, nSets>>

cacheVars == <<nextRefresh, cacheReadAt, flagUse, primaryEditedAt>>

reqVars == <<env, cachedIsRouterPrimary, pc, body, tier, classification, userText, sessions, reader, tierConfig, steps, idx, cur, res,
             lastError, attempts, outcome, nextRefresh, cacheReadAt, flagUse, primaryEditedAt>>

vars == <<now, nextSweep, pendingOverrides, setLog, nConsumes, nHits, lastConsume, nSets,
          env, cachedIsRouterPrimary, pc, body, tier, classification, userText, sessions, reader, tierConfig, steps, idx, cur, res,
          lastError, attempts, outcome, nextRefresh, cacheReadAt, flagUse, primaryEditedAt>>

----------------------------------------------------------------------------
(* Bounds *)

MaxTime == 9
MaxSets == 2
MaxChunks == 2

(* minutes an upstream call is followed *)
MaxWait == 4

(* pieces of a model identifier *)
MaxIdLen == 3

(* The most keywords of one list the prompts of the classifier check        *)
(* include.                                                                 *)
MaxMatches == 2

(* lines of an upstream event stream *)
MaxLines == 2

(* Program constants, in the units above *)

TTL == 2

(* 180_000 ms, in minutes *)
REQUEST_TIMEOUT_MS == 3

(* 30 s, the period of the cache refresh timer *)
RefreshInterval == 2
SweepInterval == 4
KeyLen == 2

(* 300 characters of an upstream error body, in blocks of 150 *)
ErrTextLen == 2

(* classifier.ts: the tier boundaries of the weighted score, in hundredths, *)
(* and the token estimate above which the tier is forced.                   *)
SIMPLE_MEDIUM_BOUNDARY == 0

MEDIUM_COMPLEX_BOUNDARY == 30

COMPLEX_REASONING_BOUNDARY == 50

MAX_TOKENS_FORCE_COMPLEX == 100000

----------------------------------------------------------------------------
(* Small helpers *)

Min(a, b) == IF a < b THEN a ELSE b

Cap2(n) == IF n >= 2 THEN 2 ELSE n

(* Prompt texts: sequences of blocks.  "ab" and "abc" agree on the key      *)
(* prefix; "b a" is what joining the text parts "b" and "a" gives.          *)
Prompts == { <<>>, <<"a">>, <<"a", "b">>, <<"a", "b", "c">>, <<"b", " ", "a">> }

StorePrompts == { <<"a", "b">>, <<"a", "b", "c">>, <<"b", " ", "a">> }

(* Prompts of 250, 500 and 750 characters with a common beginning, and one  *)
(* that differs from the first character on.                                *)
KeyPrompts == { <<"a">>, <<"a", "b">>, <<"a", "b", "c">>, <<"b", " ", "a">> }

(* Model identifiers are token sequences: what follows the first "/" of a   *)
(* tier string.                                                             *)
Backends == { [provider |-> "anthropic", model |-> <<"haiku">>],
              [provider |-> "anthropic", model |-> <<"sonnet">>] }

----------------------------------------------------------------------------
(* The override store: providers/model-override.ts *)

(* A variant that keys by the whole prompt. *)
makeKey_wholePrompt(prompt) == prompt

makeKey(prompt) == SubSeq(prompt, 1, Min(Len(prompt), KeyLen))

Keys == { makeKey(p) : p \in Prompts }

NoEntry == [present |-> FALSE, model |-> <<>>, provider |-> "", expires |-> 0]

NoOverride == [found |-> FALSE, model |-> <<>>, provider |-> ""]

setPendingOverride_noTTL(store, prompt, model, provider, t) ==
    [store EXCEPT ![makeKey(prompt)] =
        [present |-> TRUE, model |-> model, provider |-> provider, expires |-> t]]

setPendingOverride(store, prompt, model, provider, t) ==
    [store EXCEPT ![makeKey(prompt)] =
        [present |-> TRUE, model |-> model, provider |-> provider, expires |-> t + TTL]]

(* consumeOverride returns the pair <<result, store afterwards>>. *)
consumeOverride_noExpiryCheck(store, prompt, t) ==
    LET key == makeKey(prompt)
        entry == store[key]
    IN IF ~entry.present
         THEN [result |-> NoOverride, store |-> store]
         ELSE [result |-> [found |-> TRUE, model |-> entry.model, provider |-> entry.provider],
               store |-> [store EXCEPT ![key] = NoEntry]]

consumeOverride_noDelete(store, prompt, t) ==
    LET key == makeKey(prompt)
        entry == store[key]
    IN IF ~entry.present
         THEN [result |-> NoOverride, store |-> store]
         ELSE IF t > entry.expires
           THEN [result |-> NoOverride, store |-> store]
           ELSE [result |-> [found |-> TRUE, model |-> entry.model, provider |-> entry.provider],
                 store |-> store]

consumeOverride(store, prompt, t) ==
    LET key == makeKey(prompt)
        entry == store[key]
    IN IF ~entry.present
         THEN [result |-> NoOverride, store |-> store]
         ELSE IF t > entry.expires
           THEN [result |-> NoOverride, store |-> [store EXCEPT ![key] = NoEntry]]
           ELSE [result |-> [found |-> TRUE, model |-> entry.model, provider |-> entry.provider],
                 store |-> [store EXCEPT ![key] = NoEntry]]

cleanupInterval_keepsAll(store, t) == store

cleanupInterval(store, t) ==
    [k \in DOMAIN store |->
        IF store[k].present /\ t > store[k].expires THEN NoEntry ELSE store[k]]

pendingCount(store) == Cardinality({k \in DOMAIN store : store[k].present})

(* The delegated-with-override calls that can be in flight together, and   *)
(* 0 for a gateway session that no delegated call created.                  *)
Calls == {1, 2}

(* phase: idle, called (the override is written and the gateway has the     *)
(* request), hooked (before_model_resolve ran for the session), ended (the  *)
(* gateway call returned or threw).  backend: what the call wrote; at: when *)
(* it wrote; got: what the hook's consumeOverride returned; inTime: the     *)
(* hook ran within the TTL of the write; alone: no delegated call was in    *)
(* flight when the hook ran.                                                *)
NoSession ==
    [phase |-> "idle", messages |-> <<>>, prompt |-> <<>>, provider |-> "", model |-> <<>>,
     at |-> 0, hooked |-> FALSE, inTime |-> FALSE, alone |-> FALSE, got |-> NoOverride]

NoSessions == [c \in Calls \cup {0} |-> NoSession]

----------------------------------------------------------------------------
(* History bookkeeping for the store                                        *)

NoSet == [done |-> FALSE, at |-> 0, model |-> <<>>, provider |-> "", prompt |-> <<>>]

(* prompt: the prompt the call was made with; live: the sets that were in   *)
(* the store and not expired at the time of the call, each with the prompt  *)
(* it was made with.                                                        *)
NoConsume == [done |-> FALSE, key |-> <<>>, first |-> FALSE, held |-> FALSE,
              expired |-> FALSE, stored |-> NoOverride, result |-> NoOverride,
              prompt |-> <<>>, live |-> {}]

(* traced: whether the history keeps the prompts of the calls (the claims   *)
(* about the key need them).                                                *)
RecordSet(prompt, model, provider, traced) ==
    LET key == makeKey(prompt) IN
    /\ setLog' = [setLog EXCEPT ![key] =
                    [done |-> TRUE, at |-> now, model |-> model, provider |-> provider,
                     prompt |-> IF traced THEN prompt ELSE <<>>]]
    /\ nConsumes' = [nConsumes EXCEPT ![key] = 0]
    /\ nHits' = [nHits EXCEPT ![key] = 0]

RecordConsume(prompt, c, traced) ==
    LET key == makeKey(prompt) IN
    /\ lastConsume' = [done |-> TRUE, key |-> key,
                       first |-> (setLog[key].done /\ nConsumes[key] = 0),
                       held |-> pendingOverrides[key].present,
                       expired |-> (setLog[key].done /\ now > setLog[key].at + TTL),
                       stored |-> [found |-> setLog[key].done, model |-> setLog[key].model,
                                   provider |-> setLog[key].provider],
                       result |-> c.result,
                       prompt |-> IF traced THEN prompt ELSE <<>>,
                       live |-> IF ~traced THEN {} ELSE
                                { [prompt |-> setLog[k].prompt, model |-> pendingOverrides[k].model,
                                   provider |-> pendingOverrides[k].provider] :
                                  k \in {x \in Keys : pendingOverrides[x].present
                                                        /\ now <= pendingOverrides[x].expires} }]
    /\ nConsumes' = [nConsumes EXCEPT ![key] = Cap2(@ + 1)]
    /\ nHits' = [nHits EXCEPT ![key] = IF c.result.found THEN Cap2(@ + 1) ELSE @]

----------------------------------------------------------------------------
(* Tiers and the fallback chain: classifier.ts *)

Tiers == {"SIMPLE", "MEDIUM", "COMPLEX", "REASONING"}

(* A variant whose chains leave out the tier itself. *)
FALLBACK_CHAIN_skipsSelf ==
    [t \in Tiers |->
        CASE t = "SIMPLE"    -> <<"MEDIUM", "COMPLEX">>
          [] t = "MEDIUM"    -> <<"COMPLEX">>
          [] t = "COMPLEX"   -> <<"REASONING">>
          [] t = "REASONING" -> <<"REASONING">>]

FALLBACK_CHAIN ==
    [t \in Tiers |->
        CASE t = "SIMPLE"    -> <<"SIMPLE", "MEDIUM", "COMPLEX">>
          [] t = "MEDIUM"    -> <<"MEDIUM", "COMPLEX">>
          [] t = "COMPLEX"   -> <<"COMPLEX", "REASONING">>
          [] t = "REASONING" -> <<"REASONING">>]

(* Model identifiers are strings, kept as sequences of pieces: the word     *)
(* "simple" is always the two pieces "sim" "ple", and "claw-llm-router/" is *)
(* one piece.                                                               *)

(* String.prototype.replace(pattern, ""): removes the first occurrence of   *)
(* the pattern, wherever it is.                                             *)
replaceFirst(s, piece) ==
    LET hits == {i \in 1..Len(s) : s[i] = piece} IN
    IF hits = {} THEN s
    ELSE LET first == CHOOSE i \in hits : \A j \in hits : i <= j IN
         SubSeq(s, 1, first - 1) \o SubSeq(s, first + 1, Len(s))

toLowerCase(s) ==
    [i \in 1..Len(s) |->
        CASE s[i] = "SIM"               -> "sim"
          [] s[i] = "PLE"               -> "ple"
          [] s[i] = "Reasoning"         -> "reasoning"
          [] s[i] = "CLAW-LLM-ROUTER/"  -> "claw-llm-router/"
          [] OTHER                      -> s[i]]

(* The properties every object literal inherits from Object.prototype. *)
ObjectPrototypeKeys == { <<"constructor">>, <<"toString">> }

(* map[id]: an own property of the literal, else an inherited one, else     *)
(* undefined ("none").                                                      *)
tierMapLookup(id) ==
    CASE id = <<"sim", "ple">> -> "SIMPLE"
      [] id = <<"medium">>     -> "MEDIUM"
      [] id = <<"complex">>    -> "COMPLEX"
      [] id = <<"reasoning">>  -> "REASONING"
      [] id \in ObjectPrototypeKeys -> "[Function]"
      [] OTHER                 -> "none"

tierFromModelId(modelId) ==
    tierMapLookup(toLowerCase(replaceFirst(modelId, "claw-llm-router/")))

(* classify's return value: the fields the handler reads. *)
ClassificationResult_hybrid(t, confidence) ==
    [tier |-> t, confidence |-> confidence, needsLlmClassification |-> (confidence < 70)]

ClassificationResult(t, confidence) == [tier |-> t, confidence |-> confidence]

(* What classify can return for a prompt: any tier with a high confidence   *)
(* (in hundredths), or a low one for a score near a tier boundary.          *)
ClassifyResults ==
    { ClassificationResult(t, 95) : t \in Tiers } \cup { ClassificationResult("SIMPLE", 55) }

(* result.needsLlmClassification: undefined is falsy. *)
needsLlmClassification(result) ==
    IF "needsLlmClassification" \in DOMAIN result THEN result.needsLlmClassification ELSE FALSE

NoClassification == [called |-> FALSE, tier |-> "", confidence |-> 0, llmAsked |-> FALSE]

(* classify: the lowered prompt is given by what classify measures of it:   *)
(* its length in characters, the number of keywords of each list it         *)
(* includes, whether a multi-step pattern matches, and the weighted sum of  *)
(* the fifteen dimension scores (in hundredths).                            *)
NoText == [length |-> 0, reasoning |-> 0, technical |-> 0, imperative |-> 0, agentic |-> 0,
           multiStep |-> FALSE, score |-> -10]

Max(a, b) == IF a > b THEN a ELSE b

(* 1 / (1 + exp(-CONFIDENCE_STEEPNESS * x)) with steepness 12, in           *)
(* hundredths, at the arguments the scores of TextScores lead to.           *)
sigmoid(x) ==
    CASE x = -10 -> 23
      [] x = -1  -> 47
      [] x = 0   -> 50
      [] x = 1   -> 53
      [] x = 10  -> 77
      [] x = 15  -> 86
      [] x = 29  -> 97
      [] x = 30  -> 97
      [] x = 40  -> 99
      [] x = 49  -> 100
      [] x = 50  -> 100
      [] x = 60  -> 100

(* WEIGHTS, in hundredths. *)
WEIGHTS ==
    [reasoningMarkers |-> 17, codePresence |-> 14, simpleIndicators |-> 11,
     multiStepPatterns |-> 11, technicalTerms |-> 9, tokenCount |-> 8, agenticTask |-> 6,
     creativeMarkers |-> 5, questionComplexity |-> 4, constraintCount |-> 4,
     imperativeVerbs |-> 3, outputFormat |-> 3, domainSpecificity |-> 2,
     referenceComplexity |-> 2, negationComplexity |-> 1]

(* A variant whose low score is taken with the opposite sign. *)
scoreKeywords_lowNegated(matches, lowThreshold, highThreshold, scoreNone, scoreLow, scoreHigh) ==
    IF matches >= highThreshold THEN scoreHigh
    ELSE IF matches >= lowThreshold THEN 0 - scoreLow
    ELSE scoreNone

(* scoreKeywords, on the number of keywords of the list the text includes;  *)
(* scores in hundredths.                                                    *)
scoreKeywords(matches, lowThreshold, highThreshold, scoreNone, scoreLow, scoreHigh) ==
    IF matches >= highThreshold THEN scoreHigh
    ELSE IF matches >= lowThreshold THEN scoreLow
    ELSE scoreNone

(* classify, dimensions 1 to 15: the dimScores record. *)
dimScores(text) ==
    LET estimatedTokens == text.length \div 4 IN
    [tokenCount |-> IF estimatedTokens < 50 THEN -100
                    ELSE IF estimatedTokens > 500 THEN 100 ELSE 0,
     codePresence |-> scoreKeywords(text.code, 1, 2, 0, 50, 100),
     reasoningMarkers |-> IF text.reasoning >= 2 THEN 100
                          ELSE IF text.reasoning = 1 THEN 70 ELSE 0,
     technicalTerms |-> scoreKeywords(text.technical, 2, 4, 0, 50, 100),
     creativeMarkers |-> scoreKeywords(text.creative, 1, 2, 0, 50, 70),
     simpleIndicators |-> scoreKeywords(text.simple, 1, 2, 0, -100, -100),
     multiStepPatterns |-> IF text.multiStep THEN 50 ELSE 0,
     questionComplexity |-> IF text.questions > 3 THEN 50 ELSE 0,
     imperativeVerbs |-> scoreKeywords(text.imperative, 1, 2, 0, 30, 50),
     constraintCount |-> scoreKeywords(text.constraints, 1, 3, 0, 30, 70),
     outputFormat |-> scoreKeywords(text.format, 1, 2, 0, 40, 70),
     referenceComplexity |-> scoreKeywords(text.references, 1, 2, 0, 30, 50),
     negationComplexity |-> scoreKeywords(text.negation, 2, 3, 0, 30, 50),
     domainSpecificity |-> scoreKeywords(text.domain, 1, 2, 0, 50, 80),
     agenticTask |-> IF text.agentic >= 4 THEN 100
                     ELSE IF text.agentic >= 2 THEN 50 ELSE 0]

(* One term of the weighted sum, in ten-thousandths. *)
contribution(text, dim) == WEIGHTS[dim] * dimScores(text)[dim]

(* A variant that counts a score on a boundary to the lower band. *)
mapScoreToTier_boundaryBelow(weightedScore) ==
    ClassificationResult(
        IF weightedScore <= SIMPLE_MEDIUM_BOUNDARY THEN "SIMPLE"
        ELSE IF weightedScore <= MEDIUM_COMPLEX_BOUNDARY THEN "MEDIUM"
        ELSE IF weightedScore <= COMPLEX_REASONING_BOUNDARY THEN "COMPLEX"
        ELSE "REASONING",
        50)

(* classify, "Map score to tier": the band the score falls in, with the     *)
(* distance to the nearest boundary as confidence.                          *)
mapScoreToTier(weightedScore) ==
    LET distance ==
            IF weightedScore < SIMPLE_MEDIUM_BOUNDARY
              THEN SIMPLE_MEDIUM_BOUNDARY - weightedScore
            ELSE IF weightedScore < MEDIUM_COMPLEX_BOUNDARY
              THEN Min(weightedScore - SIMPLE_MEDIUM_BOUNDARY,
                       MEDIUM_COMPLEX_BOUNDARY - weightedScore)
            ELSE IF weightedScore < COMPLEX_REASONING_BOUNDARY
              THEN Min(weightedScore - MEDIUM_COMPLEX_BOUNDARY,
                       COMPLEX_REASONING_BOUNDARY - weightedScore)
            ELSE weightedScore - COMPLEX_REASONING_BOUNDARY
    IN ClassificationResult(
           IF weightedScore < SIMPLE_MEDIUM_BOUNDARY THEN "SIMPLE"
           ELSE IF weightedScore < MEDIUM_COMPLEX_BOUNDARY THEN "MEDIUM"
           ELSE IF weightedScore < COMPLEX_REASONING_BOUNDARY THEN "COMPLEX"
           ELSE "REASONING",
           sigmoid(distance))

(* A variant whose overrides take the sigmoid as it is. *)
classify_noFloor(text) ==
    LET estimatedTokens == text.length \div 4
        complexitySignals == text.technical + text.imperative + text.agentic
    IN IF estimatedTokens > MAX_TOKENS_FORCE_COMPLEX
         THEN ClassificationResult("COMPLEX", 95)
       ELSE IF text.reasoning >= 2
         THEN ClassificationResult("REASONING", sigmoid(text.score))
       ELSE IF complexitySignals >= 4 /\ (text.multiStep \/ text.length > 300)
         THEN ClassificationResult("COMPLEX", sigmoid(text.score))
       ELSE mapScoreToTier(text.score)

(* A variant that tests the reasoning markers before the token count. *)
classify_reasoningFirst(text) ==
    LET estimatedTokens == text.length \div 4
        complexitySignals == text.technical + text.imperative + text.agentic
    IN IF text.reasoning >= 2
         THEN ClassificationResult("REASONING", Max(sigmoid(text.score), 85))
       ELSE IF estimatedTokens > MAX_TOKENS_FORCE_COMPLEX
         THEN ClassificationResult("COMPLEX", 95)
       ELSE IF complexitySignals >= 4 /\ (text.multiStep \/ text.length > 300)
         THEN ClassificationResult("COMPLEX", Max(sigmoid(text.score), 85))
       ELSE mapScoreToTier(text.score)

classify(text) ==
    LET estimatedTokens == text.length \div 4
        reasoningMatchCount == text.reasoning
        weightedScore == text.score
        complexitySignals == text.technical + text.imperative + text.agentic
        hasMultiStep == text.multiStep
        isLongPrompt == text.length > 300
    IN IF estimatedTokens > MAX_TOKENS_FORCE_COMPLEX
         THEN ClassificationResult("COMPLEX", 95)
       ELSE IF reasoningMatchCount >= 2
         THEN ClassificationResult("REASONING", Max(sigmoid(weightedScore), 85))
       ELSE IF complexitySignals >= 4 /\ (hasMultiStep \/ isLongPrompt)
         THEN ClassificationResult("COMPLEX", Max(sigmoid(weightedScore), 85))
       ELSE mapScoreToTier(weightedScore)

(* handleChatCompletion, "Determine tier": llmTier is what the hybrid       *)
(* branch would end with (the LLM's answer, or MEDIUM when it fails).       *)
decideTier_alwaysClassifies(modelId, result, llmTier) ==
    [tier |-> result.tier, step |-> "classify",
     classification |-> [called |-> TRUE, tier |-> result.tier,
                         confidence |-> result.confidence, llmAsked |-> FALSE]]

decideTier(modelId, result, llmTier) ==
    LET tierOverride == tierFromModelId(replaceFirst(modelId, "claw-llm-router/")) IN
    IF tierOverride # "none"
      THEN [tier |-> tierOverride, step |-> "force", classification |-> NoClassification]
      ELSE [tier |-> IF needsLlmClassification(result) THEN llmTier ELSE result.tier,
            step |-> "classify",
            classification |-> [called |-> TRUE, tier |-> result.tier,
                                confidence |-> result.confidence,
                                llmAsked |-> needsLlmClassification(result)]]

----------------------------------------------------------------------------
(* Errors.  An Error is its message, kept as the parts the message is built *)
(* from.                                                                    *)

NoError == [kind |-> "none", provider |-> "", model |-> <<>>, info |-> "", text |-> <<>>]

Err(kind, provider, model, info) ==
    [kind |-> kind, provider |-> provider, model |-> model, info |-> info, text |-> <<>>]

(* errText.slice(0, 300): the text of an upstream error body is a sequence  *)
(* of blocks of 150 characters.                                             *)
errTextSlice_whole(errText) == errText

errTextSlice(errText) == SubSeq(errText, 1, Min(Len(errText), ErrTextLen))

(* new Error(`<prefix> <model> <status>: <errText.slice(0, 300)>`) *)
HttpError(prefix, model, status, errText) ==
    [kind |-> "http", provider |-> prefix, model |-> model, info |-> status,
     text |-> errTextSlice(errText)]

----------------------------------------------------------------------------
(* Tier configuration: tier-config.ts *)

DEFAULT_TIERS ==
    [t \in Tiers |->
        CASE t = "SIMPLE"    -> <<"google", "/", "flash">>
          [] t = "MEDIUM"    -> <<"anthropic", "/", "haiku">>
          [] t = "COMPLEX"   -> <<"anthropic", "/", "sonnet">>
          [] t = "REASONING" -> <<"anthropic", "/", "opus">>]

WELL_KNOWN_BASE_URLS ==
    [p \in {"anthropic", "google", "openai"} |->
        CASE p = "anthropic" -> "api.anthropic.com/v1"
          [] p = "google"    -> "generativelanguage.googleapis.com"
          [] p = "openai"    -> "api.openai.com/v1"]

envVarName(provider) ==
    CASE provider = "google"    -> "GEMINI_API_KEY"
      [] provider = "anthropic" -> "ANTHROPIC_API_KEY"
      [] provider = "openai"    -> "OPENAI_API_KEY"
      [] OTHER                  -> "_API_KEY"

(* The router-config.json files an operator may have written ("tiers"), and *)
(* the credential stores (provider -> {key, isOAuth}).                      *)
TierSets ==
    { DEFAULT_TIERS,
      [DEFAULT_TIERS EXCEPT !["SIMPLE"] = <<"flash">>],
      [DEFAULT_TIERS EXCEPT !["SIMPLE"] = <<"anthropic", "/", "haiku">>,
                            !["MEDIUM"] = <<"openai", "/", "mini">>,
                            !["COMPLEX"] = <<"google", "/", "pro">>] }

NoKey == [key |-> "", isOAuth |-> FALSE]

DirectKey == [key |-> "sk-key", isOAuth |-> FALSE]

OAuthKey == [key |-> "sk-ant-oat01", isOAuth |-> TRUE]

CredSets ==
    { [p \in DOMAIN WELL_KNOWN_BASE_URLS |-> DirectKey],
      [p \in DOMAIN WELL_KNOWN_BASE_URLS |->
          CASE p = "anthropic" -> OAuthKey
            [] p = "google"    -> NoKey
            [] OTHER           -> DirectKey],
      [p \in DOMAIN WELL_KNOWN_BASE_URLS |->
          IF p = "openai" THEN DirectKey ELSE NoKey] }

(* rev counts the operator's edits since the service started (0, or 1 for  *)
(* one or more).                                                            *)
Envs == [tiers : TierSets, creds : CredSets, primary : BOOLEAN, rev : {0}]

RECURSIVE indexOf(_, _, _)
indexOf(s, tok, from) ==
    IF from > Len(s) THEN 0
    ELSE IF s[from] = tok THEN from
    ELSE indexOf(s, tok, from + 1)

NoSpec == [provider |-> "", modelId |-> <<>>, baseUrl |-> "", apiKey |-> "",
           isAnthropic |-> FALSE, isOAuth |-> FALSE]

(* resolveBaseUrl: the well-known URL, or a throw for an unknown provider.  *)
resolveBaseUrl(provider) ==
    IF provider \in DOMAIN WELL_KNOWN_BASE_URLS
      THEN [threw |-> FALSE, url |-> WELL_KNOWN_BASE_URLS[provider]]
      ELSE [threw |-> TRUE, url |-> ""]

loadApiKey(e, provider) ==
    IF provider \in DOMAIN e.creds THEN e.creds[provider] ELSE NoKey

(* resolveTierModel: splits "provider/model-id" at the first slash.         *)
resolveTierModel(e, tierString) ==
    LET slashIdx == indexOf(tierString, "/", 1) IN
    IF slashIdx = 0
      THEN [threw |-> TRUE, err |-> Err("Error", "", tierString, "Invalid tier model format"),
            spec |-> NoSpec]
      ELSE LET provider == IF slashIdx = 2 THEN tierString[1] ELSE ""
               modelId == SubSeq(tierString, slashIdx + 1, Len(tierString))
               base == resolveBaseUrl(provider)
               cred == loadApiKey(e, provider)
           IN IF base.threw
                THEN [threw |-> TRUE, err |-> Err("Error", provider, modelId, "Unknown provider"),
                      spec |-> NoSpec]
                ELSE [threw |-> FALSE, err |-> NoError,
                      spec |-> [provider |-> provider, modelId |-> modelId,
                                baseUrl |-> base.url, apiKey |-> cred.key,
                                isAnthropic |-> (provider = "anthropic"
                                                 \/ base.url = "api.anthropic.com/v1"),
                                isOAuth |-> cred.isOAuth]]

(* loadTierConfig resolves all four tiers, in the order of the object       *)
(* literal; the first throw leaves the function.                            *)
TierOrder == <<"SIMPLE", "MEDIUM", "COMPLEX", "REASONING">>

loadTierConfig_skipsBadTiers(e) ==
    LET r == [t \in Tiers |-> resolveTierModel(e, e.tiers[t])] IN
    [threw |-> FALSE, err |-> NoError,
     config |-> [t \in Tiers |-> IF r[t].threw
                                   THEN [NoSpec EXCEPT !.provider = "invalid"]
                                   ELSE r[t].spec]]

(* A variant that never reads router-config.json. *)
loadTierConfig_defaultsOnly(e) ==
    [threw |-> FALSE, err |-> NoError,
     config |-> [t \in Tiers |-> resolveTierModel(e, DEFAULT_TIERS[t]).spec]]

loadTierConfig(e) ==
    LET r == [t \in Tiers |-> resolveTierModel(e, e.tiers[t])]
        bad == {i \in 1..Len(TierOrder) : r[TierOrder[i]].threw}
    IN IF bad # {}
         THEN LET first == CHOOSE i \in bad : \A j \in bad : i <= j IN
              [threw |-> TRUE, err |-> r[TierOrder[first]].err,
               config |-> [t \in Tiers |-> NoSpec]]
         ELSE [threw |-> FALSE, err |-> NoError, config |-> [t \in Tiers |-> r[t].spec]]

----------------------------------------------------------------------------
(* Request bodies and prompt extraction *)

Str(text) == [kind |-> "string", text |-> text, parts |-> <<>>]

Parts(parts) == [kind |-> "parts", text |-> <<>>, parts |-> parts]

Msg(role, content) == [role |-> role, content |-> content]

MessageLists ==
    { <<Msg("user", Str(<<"a", "b">>))>>,
      <<Msg("system", Str(<<"s">>)), Msg("user", Str(<<"b">>)),
        Msg("assistant", Str(<<"x">>)), Msg("user", Str(<<"a", "b", "c">>))>>,
      <<Msg("user", Parts(<<[type |-> "text", text |-> <<"b">>],
                            [type |-> "image", text |-> <<>>],
                            [type |-> "text", text |-> <<"a">>]>>))>>,
      <<Msg("system", Str(<<"s">>))>> }

ModelIds == { <<"auto">>, <<"reasoning">>, <<"claw-llm-router/", "medium">> }

Bodies == [messages : MessageLists, stream : BOOLEAN, model : ModelIds]

NoBody == [messages |-> <<>>, stream |-> FALSE, model |-> <<"auto">>]

(* .filter(type === "text").map(text).join(" ") *)
RECURSIVE joinTextParts(_, _, _)
joinTextParts(parts, i, started) ==
    IF i > Len(parts) THEN <<>>
    ELSE IF parts[i].type # "text" THEN joinTextParts(parts, i + 1, started)
    ELSE (IF started THEN <<" ">> ELSE <<>>) \o parts[i].text
         \o joinTextParts(parts, i + 1, TRUE)

RECURSIVE lastUserFrom(_, _)
lastUserFrom(messages, i) ==
    IF i < 1 THEN <<>>
    ELSE IF messages[i].role = "user"
      THEN IF messages[i].content.kind = "string" THEN messages[i].content.text
           ELSE IF messages[i].content.kind = "parts"
             THEN joinTextParts(messages[i].content.parts, 1, FALSE)
             ELSE lastUserFrom(messages, i - 1)
      ELSE lastUserFrom(messages, i - 1)

RECURSIVE firstUserFrom(_, _)
firstUserFrom(messages, i) ==
    IF i > Len(messages) THEN <<>>
    ELSE IF messages[i].role = "user"
      THEN IF messages[i].content.kind = "string" THEN messages[i].content.text
           ELSE joinTextParts(messages[i].content.parts, 1, FALSE)
      ELSE firstUserFrom(messages, i + 1)

extractUserPromptFromBody_firstUser(b) == firstUserFrom(b.messages, 1)

extractUserPromptFromBody(b) == lastUserFrom(b.messages, Len(b.messages))

----------------------------------------------------------------------------
(* The caller's response: node:http ServerResponse as the providers and the *)
(* proxy use it.  out is everything written to the caller, in order, each   *)
(* item tagged with who wrote it (a tier, or "router").                     *)

Item(src, kind, what, err) == [src |-> src, kind |-> kind, what |-> what, err |-> err]

(* closed: the caller's connection is gone; delivered: how many items of    *)
(* out went out on the connection; closedLen: delivered at the time of the  *)
(* close.  A write on a response whose connection is gone is dropped: it    *)
(* does not throw.                                                          *)
NewResponse ==
    [headersSent |-> FALSE, statusCode |-> "", writableEnded |-> FALSE, out |-> <<>>,
     closed |-> FALSE, delivered |-> 0, closedLen |-> 0]

(* A variant in which data written after the close still goes out. *)
put_ignoresClose(r, item) ==
    [r EXCEPT !.out = Append(@, item), !.delivered = @ + 1]

put(r, item) ==
    [r EXCEPT !.out = Append(@, item),
              !.delivered = IF r.closed THEN @ ELSE @ + 1]

(* res.writeHead throws ERR_HTTP_HEADERS_SENT once headers were written.    *)
res_writeHead(r, src, status) ==
    IF r.headersSent
      THEN [threw |-> TRUE, res |-> r]
      ELSE [threw |-> FALSE,
            res |-> [put(r, Item(src, "head", status, NoError))
                        EXCEPT !.headersSent = TRUE, !.statusCode = status]]

res_write(r, src, what) ==
    [put(r, Item(src, "chunk", what, NoError)) EXCEPT !.headersSent = TRUE]

res_end(r) == [r EXCEPT !.writableEnded = TRUE]

res_endWith(r, src, what, err) ==
    [put(r, Item(src, "body", what, err)) EXCEPT !.headersSent = TRUE, !.writableEnded = TRUE]

----------------------------------------------------------------------------
(* Upstream behaviour: what a fetch() can come back with, and what a        *)
(* stream read can yield.                                                   *)

NoResponse == [kind |-> "none", ok |-> FALSE, status |-> "", body |-> "", errText |-> <<>>]

Responses(stream) ==
    { [kind |-> "reject", ok |-> FALSE, status |-> "", body |-> "", errText |-> <<>>] }
    \cup { [kind |-> "http", ok |-> FALSE, status |-> "500", body |-> "text", errText |-> e] :
             e \in {<<"e">>, <<"e", "r", "r">>} }
    \cup { [kind |-> "http", ok |-> TRUE, status |-> "200", body |-> b, errText |-> <<>>] :
             b \in IF stream THEN {"stream", "none"} ELSE {"json", "malformed"} }

(* The data lines of an upstream event stream, by event type; "malformed"   *)
(* is a data line that is not JSON.                                         *)
AnthropicEvents ==
    {"message_start", "content_block_delta", "message_stop", "error", "malformed"}

Thrown(r, err) == [state |-> "throw", res |-> r, err |-> err]

Completed(r) == [state |-> "done", res |-> r, err |-> NoError]

Streaming(r) == [state |-> "streaming", res |-> r, err |-> NoError]

----------------------------------------------------------------------------
(* Provider strategies, from the point where fetch() has settled.           *)

(* A variant that writes the head only when none was sent yet. *)
OpenAICompatibleProvider_chatCompletion_guardedHead(r, t, spec, stream, resp) ==
    IF resp.kind = "reject" THEN Thrown(r, Err("fetch failed", spec.provider, spec.modelId, ""))
    ELSE IF ~resp.ok THEN Thrown(r, HttpError("", spec.modelId, resp.status, resp.errText))
    ELSE IF stream
      THEN LET h == IF r.headersSent THEN r ELSE res_writeHead(r, t, "200").res IN
           IF resp.body = "none"
             THEN Thrown(h, Err("No response body", "", spec.modelId, ""))
             ELSE Streaming(h)
      ELSE IF resp.body = "malformed"
        THEN Thrown(r, Err("SyntaxError", "", spec.modelId, ""))
        ELSE LET h == IF r.headersSent THEN r ELSE res_writeHead(r, t, "200").res IN
             Completed(res_endWith(h, t, "completion", NoError))

OpenAICompatibleProvider_chatCompletion(r, t, spec, stream, resp) ==
    IF resp.kind = "reject" THEN Thrown(r, Err("fetch failed", spec.provider, spec.modelId, ""))
    ELSE IF ~resp.ok THEN Thrown(r, HttpError("", spec.modelId, resp.status, resp.errText))
    ELSE IF stream
      THEN LET h == res_writeHead(r, t, "200") IN
           IF h.threw THEN Thrown(r, Err("ERR_HTTP_HEADERS_SENT", "", <<>>, ""))
           ELSE IF resp.body = "none"
             THEN Thrown(h.res, Err("No response body", "", spec.modelId, ""))
             ELSE Streaming(h.res)
      ELSE IF resp.body = "malformed"
        THEN Thrown(r, Err("SyntaxError", "", spec.modelId, ""))
        ELSE LET h == res_writeHead(r, t, "200") IN
             IF h.threw THEN Thrown(r, Err("ERR_HTTP_HEADERS_SENT", "", <<>>, ""))
             ELSE Completed(res_endWith(h.res, t, "completion", NoError))

(* A variant that hands a non-2xx upstream response on to the caller. *)
AnthropicProvider_chatCompletion_forwardsFailure(r, t, spec, stream, resp) ==
    IF resp.kind = "reject" THEN Thrown(r, Err("fetch failed", spec.provider, spec.modelId, ""))
    ELSE IF ~resp.ok
      THEN LET h == res_writeHead(r, t, resp.status) IN
           IF h.threw THEN Thrown(r, Err("ERR_HTTP_HEADERS_SENT", "", <<>>, ""))
           ELSE Completed(res_endWith(h.res, t, "upstream error", NoError))
    ELSE IF stream
      THEN LET h == res_writeHead(r, t, "200") IN
           IF h.threw THEN Thrown(r, Err("ERR_HTTP_HEADERS_SENT", "", <<>>, ""))
           ELSE IF resp.body = "none"
             THEN Thrown(h.res, Err("No response body", "Anthropic", spec.modelId, ""))
             ELSE Streaming(h.res)
      ELSE IF resp.body = "malformed"
        THEN Thrown(r, Err("SyntaxError", "Anthropic", spec.modelId, ""))
        ELSE LET h == res_writeHead(r, t, "200") IN
             IF h.threw THEN Thrown(r, Err("ERR_HTTP_HEADERS_SENT", "", <<>>, ""))
             ELSE Completed(res_endWith(h.res, t, "chat.completion", NoError))

(* AnthropicProvider: the non-streaming body is converted by               *)
(* toOpenAIResponse, which throws on a body without content/usage.          *)
AnthropicProvider_chatCompletion(r, t, spec, stream, resp) ==
    IF resp.kind = "reject" THEN Thrown(r, Err("fetch failed", spec.provider, spec.modelId, ""))
    ELSE IF ~resp.ok THEN Thrown(r, HttpError("Anthropic", spec.modelId, resp.status, resp.errText))
    ELSE IF stream
      THEN LET h == res_writeHead(r, t, "200") IN
           IF h.threw THEN Thrown(r, Err("ERR_HTTP_HEADERS_SENT", "", <<>>, ""))
           ELSE IF resp.body = "none"
             THEN Thrown(h.res, Err("No response body", "Anthropic", spec.modelId, ""))
             ELSE Streaming(h.res)
      ELSE IF resp.body = "malformed"
        THEN Thrown(r, Err("SyntaxError", "Anthropic", spec.modelId, ""))
        ELSE LET h == res_writeHead(r, t, "200") IN
             IF h.threw THEN Thrown(r, Err("ERR_HTTP_HEADERS_SENT", "", <<>>, ""))
             ELSE Completed(res_endWith(h.res, t, "chat.completion", NoError))

(* GatewayProvider: the model is "<provider>/<modelId>".                    *)
GatewayProvider_chatCompletion(r, t, spec, stream, resp) ==
    LET modelId == <<spec.provider, "/">> \o spec.modelId IN
    IF resp.kind = "reject" THEN Thrown(r, Err("fetch failed", spec.provider, spec.modelId, ""))
    ELSE IF ~resp.ok THEN Thrown(r, HttpError("Gateway", modelId, resp.status, resp.errText))
    ELSE IF stream
      THEN LET h == res_writeHead(r, t, "200") IN
           IF h.threw THEN Thrown(r, Err("ERR_HTTP_HEADERS_SENT", "", <<>>, ""))
           ELSE IF resp.body = "none"
             THEN Thrown(h.res, Err("No response body", "Gateway", modelId, ""))
             ELSE Streaming(h.res)
      ELSE IF resp.body = "malformed"
        THEN Thrown(r, Err("SyntaxError", "Gateway", modelId, ""))
        ELSE LET h == res_writeHead(r, t, "200") IN
             IF h.threw THEN Thrown(r, Err("ERR_HTTP_HEADERS_SENT", "", <<>>, ""))
             ELSE Completed(res_endWith(h.res, t, "completion", NoError))

(* One chunk of a pass-through stream: forwarded as it is. *)
passThroughChunk(r, t) == IF r.writableEnded THEN r ELSE res_write(r, t, "raw")

(* convertAnthropicStream, one upstream event: what is written for it.      *)
convertAnthropicStream(r, t, eventType) ==
    IF r.writableEnded THEN r
    ELSE CASE eventType = "message_start"       -> res_write(r, t, "role")
           [] eventType = "content_block_delta" -> res_write(r, t, "content")
           [] eventType = "message_delta"       -> res_write(r, t, "finish")
           [] eventType = "message_stop"        -> res_write(r, t, "[DONE]")
           [] OTHER                             -> r

(* The upstream body of a stream, as a sequence of pieces: the "data: "     *)
(* prefix, the two halves of a JSON payload (the opening up to the event    *)
(* type, and the rest), a piece of other text, and the line feed.           *)
LF == "\n"

Payloads == {"{message_start", "{content_block_delta", "{message_delta", "{message_stop",
             "{error"}

typeOf(piece) ==
    CASE piece = "{message_start"       -> "message_start"
      [] piece = "{content_block_delta" -> "content_block_delta"
      [] piece = "{message_delta"       -> "message_delta"
      [] piece = "{message_stop"        -> "message_stop"
      [] piece = "{error"               -> "error"

(* One line of the body: the type of the event it carries, "none" for a     *)
(* line without the prefix, without data, or whose data JSON.parse rejects. *)
eventOf(line) ==
    IF Len(line) = 0 \/ line[1] # "data: " THEN "none"
    ELSE LET dataStr == Tail(line) IN
         IF dataStr = <<>> THEN "none"
         ELSE IF Len(dataStr) = 2 /\ dataStr[1] \in Payloads /\ dataStr[2] = "}"
           THEN typeOf(dataStr[1])
           ELSE "none"

(* convertAnthropicStream, the body of the read loop after a read: the      *)
(* pieces are split at line feeds, every complete line is handled in order  *)
(* and the last, incomplete line is what stays in the buffer.               *)
RECURSIVE convertLines(_, _, _, _)
convertLines(r, t, line, pieces) ==
    IF pieces = <<>> THEN [res |-> r, buffer |-> line, threw |-> FALSE]
    ELSE IF Head(pieces) = LF
      THEN convertLines(convertAnthropicStream(r, t, eventOf(line)), t, <<>>, Tail(pieces))
      ELSE convertLines(r, t, Append(line, Head(pieces)), Tail(pieces))

(* A variant that starts every read with an empty buffer. *)
convertAnthropicStream_read_dropsBuffer(r, t, buffer, value) ==
    convertLines(r, t, <<>>, value)

convertAnthropicStream_read(r, t, buffer, value) ==
    convertLines(r, t, <<>>, buffer \o value)

(* convertAnthropicStream after the loop: a message_stop left in the buffer *)
(* is still translated, then the response is ended.                         *)
convertAnthropicStream_done(r, t, buffer) ==
    LET flushed == IF eventOf(buffer) = "message_stop" /\ ~r.writableEnded
                     THEN res_write(r, t, "[DONE]")
                     ELSE r
    IN  IF flushed.writableEnded THEN flushed ELSE res_end(flushed)

(* proxy.ts, handleAnthropicStream.  sendStop writes the closing chunk and  *)
(* the terminator and ends the response.                                    *)
sendChunk(r, t) == IF r.writableEnded THEN r ELSE res_write(r, t, "content")

sendStop(r, t) ==
    IF r.writableEnded THEN r
    ELSE res_end(res_write(res_write(r, t, "finish"), t, "[DONE]"))

(* The read loop of handleAnthropicStream after a read: message_stop leaves *)
(* the for-loop over the lines of this read (stopped), an error event is    *)
(* thrown out of the function.                                              *)
RECURSIVE handleLines(_, _, _, _, _)
handleLines(r, t, line, pieces, stopped) ==
    IF pieces = <<>> THEN [res |-> r, buffer |-> line, threw |-> FALSE]
    ELSE IF Head(pieces) # LF
      THEN handleLines(r, t, Append(line, Head(pieces)), Tail(pieces), stopped)
    ELSE IF stopped THEN handleLines(r, t, <<>>, Tail(pieces), TRUE)
    ELSE LET type == eventOf(line) IN
         IF type = "error" THEN [res |-> r, buffer |-> <<>>, threw |-> TRUE]
         ELSE IF type = "message_stop"
           THEN handleLines(sendStop(r, t), t, <<>>, Tail(pieces), TRUE)
         ELSE IF type = "content_block_delta"
           THEN handleLines(sendChunk(r, t), t, <<>>, Tail(pieces), FALSE)
           ELSE handleLines(r, t, <<>>, Tail(pieces), FALSE)

handleAnthropicStream_read(r, t, buf, value) ==
    handleLines(r, t, <<>>, buf \o value, FALSE)

handleAnthropicStream_done(r, t, buf) == sendStop(r, t)

(* No stream is being read. *)
NoReader == [fn |-> "", phase |-> "none", text |-> <<>>, rest |-> <<>>, buffer |-> <<>>,
             inside |-> FALSE, reads |-> 0]

(* The end of the upstream stream: if (!res.writableEnded) res.end().       *)
streamDone(r) == IF r.writableEnded THEN r ELSE res_end(r)

----------------------------------------------------------------------------
(* The outbound request of each strategy: what is handed to fetch().  A     *)
(* body or payload is a function from its field names to their values.      *)

ALLOWED_PARAMS ==
    {"messages", "model", "stream", "max_tokens", "max_completion_tokens", "temperature",
     "top_p", "n", "stop", "presence_penalty", "frequency_penalty", "logit_bias", "logprobs",
     "top_logprobs", "response_format", "seed", "tools", "tool_choice",
     "parallel_tool_calls", "user", "stream_options", "service_tier"}

OPENAI_ONLY_PARAMS ==
    {"n", "frequency_penalty", "presence_penalty", "logprobs", "top_logprobs", "logit_bias",
     "response_format", "seed", "service_tier", "tools", "tool_choice",
     "parallel_tool_calls", "user", "store", "metadata", "stream_options"}

(* { ...f, ...g } *)
spread(f, g) ==
    [k \in DOMAIN f \cup DOMAIN g |-> IF k \in DOMAIN g THEN g[k] ELSE f[k]]

(* A variant that lets every field through. *)
sanitizeBody_keepsAll(b) == b

sanitizeBody(b) == [k \in DOMAIN b \cap ALLOWED_PARAMS |-> b[k]]

(* body.stream ?? false *)
streamOf(b) == IF "stream" \in DOMAIN b THEN b.stream ELSE FALSE

(* convertMessages: the system parts (joined in the source; <<>> is the     *)
(* undefined of a list without system messages) are split off the list.     *)
convertMessages(messages) ==
    LET sys == SelectSeq(messages, LAMBDA m : m.role = "system")
    IN [system |-> [i \in DOMAIN sys |-> sys[i].content],
        messages |-> SelectSeq(messages, LAMBDA m : m.role \in {"user", "assistant"})]

buildAnthropicBody(b, modelId, systemText, messages) ==
    LET copied == [k \in DOMAIN b \ ({"model", "messages", "stream"} \cup OPENAI_ONLY_PARAMS)
                     |-> b[k]]
        withSystem == IF systemText # <<>> THEN [system |-> systemText] ELSE <<>>
    IN spread(spread(spread(copied, [model |-> modelId, messages |-> messages]), withSystem),
              [max_tokens |-> IF "max_tokens" \in DOMAIN b THEN b.max_tokens ELSE 8192])

(* getGatewayInfo: port and token of the host gateway, from openclaw.json.  *)
getGatewayInfo == [port |-> "18789", token |-> "gateway-token"]

NoRequest == [url |-> <<>>, header |-> "", scheme |-> "", credential |-> "", payload |-> <<>>]

OpenAICompatibleProvider_fetch(b, spec, stream) ==
    [url |-> <<spec.baseUrl, "/chat/completions">>,
     header |-> "Authorization", scheme |-> "Bearer", credential |-> spec.apiKey,
     payload |-> spread(sanitizeBody(b), [model |-> spec.modelId, stream |-> stream])]

(* A variant with the header choice of anthropicHeaders in proxy.ts. *)
AnthropicProvider_fetch_bearerForToken(b, spec, stream) ==
    [url |-> <<spec.baseUrl, "/messages">>,
     header |-> IF spec.apiKey = "sk-ant-oat01" THEN "Authorization" ELSE "x-api-key",
     scheme |-> IF spec.apiKey = "sk-ant-oat01" THEN "Bearer" ELSE "",
     credential |-> spec.apiKey,
     payload |->
         LET conv == convertMessages(IF "messages" \in DOMAIN b THEN b.messages ELSE <<>>)
         IN spread(buildAnthropicBody(b, spec.modelId, conv.system, conv.messages),
                   [stream |-> stream])]

AnthropicProvider_fetch(b, spec, stream) ==
    [url |-> <<spec.baseUrl, "/messages">>,
     header |-> "x-api-key", scheme |-> "", credential |-> spec.apiKey,
     payload |->
         LET conv == convertMessages(IF "messages" \in DOMAIN b THEN b.messages ELSE <<>>)
         IN spread(buildAnthropicBody(b, spec.modelId, conv.system, conv.messages),
                   [stream |-> stream])]

(* A variant that authenticates with the provider's key. *)
GatewayProvider_fetch_providerKey(b, spec, stream) ==
    [url |-> <<"http://127.0.0.1:", getGatewayInfo.port, "/v1/chat/completions">>,
     header |-> "Authorization", scheme |-> "Bearer", credential |-> spec.apiKey,
     payload |-> spread(b, [model |-> <<spec.provider, "/">> \o spec.modelId,
                            stream |-> stream])]

GatewayProvider_fetch(b, spec, stream) ==
    [url |-> <<"http://127.0.0.1:", getGatewayInfo.port, "/v1/chat/completions">>,
     header |-> "Authorization", scheme |-> "Bearer", credential |-> getGatewayInfo.token,
     payload |-> spread(b, [model |-> <<spec.provider, "/">> \o spec.modelId,
                            stream |-> stream])]

fetchRequest(name, b, spec, stream) ==
    CASE name = "openai-compatible" -> OpenAICompatibleProvider_fetch(b, spec, stream)
      [] name = "anthropic"         -> AnthropicProvider_fetch(b, spec, stream)
      [] OTHER                      -> GatewayProvider_fetch(b, spec, stream)

----------------------------------------------------------------------------
(* Provider registry: providers/index.ts *)

isRouterPrimaryModel(e) == e.primary

(* getIsRouterPrimary: the value, and the cache afterwards. *)
getIsRouterPrimary(cache, e) ==
    IF cache = "undefined"
      THEN [value |-> isRouterPrimaryModel(e),
            cache |-> IF isRouterPrimaryModel(e) THEN "true" ELSE "false"]
      ELSE [value |-> (cache = "true"), cache |-> cache]

(* A variant that looks at the protocol family first. *)
(* The callback of _cacheInterval. *)
cacheRefresh_keeps(cache) == cache

cacheRefresh(cache) == "undefined"

resolveProvider_familyFirst(spec, cache, e) ==
    IF spec.isAnthropic THEN [name |-> "anthropic", cache |-> cache]
    ELSE IF spec.isOAuth
      THEN LET g == getIsRouterPrimary(cache, e) IN
           [name |-> IF g.value THEN "gateway-with-override" ELSE "gateway", cache |-> g.cache]
      ELSE [name |-> "openai-compatible", cache |-> cache]

resolveProvider(spec, cache, e) ==
    IF spec.isOAuth
      THEN LET g == getIsRouterPrimary(cache, e) IN
           [name |-> IF g.value THEN "gateway-with-override" ELSE "gateway", cache |-> g.cache]
      ELSE IF spec.isAnthropic THEN [name |-> "anthropic", cache |-> cache]
      ELSE [name |-> "openai-compatible", cache |-> cache]

MissingApiKeyError(provider, modelId, envVar) ==
    Err("MissingApiKeyError", provider, modelId, envVar)

(* callProvider up to the provider call: the credential check. *)
callProvider_noKeyCheck(spec) == [threw |-> FALSE, err |-> NoError]

callProvider(spec) ==
    IF spec.apiKey = ""
      THEN [threw |-> TRUE,
            err |-> MissingApiKeyError(spec.provider, spec.modelId, envVarName(spec.provider))]
      ELSE [threw |-> FALSE, err |-> NoError]

(* gatewayOverrideProvider, before it delegates: the store afterwards.      *)
gatewayOverrideProvider_noOverride(store, b, spec, t) == store

gatewayOverrideProvider(store, b, spec, t) ==
    setPendingOverride(store, extractUserPromptFromBody(b), spec.modelId, spec.provider, t)

chatCompletion(name, r, t, spec, stream, resp) ==
    CASE name = "openai-compatible" -> OpenAICompatibleProvider_chatCompletion(r, t, spec, stream, resp)
      [] name = "anthropic"         -> AnthropicProvider_chatCompletion(r, t, spec, stream, resp)
      [] OTHER                      -> GatewayProvider_chatCompletion(r, t, spec, stream, resp)

----------------------------------------------------------------------------
(* The request handler's own steps: proxy handleChatCompletion / startProxy *)

(* After the tier decision the handler loads the tier configuration. *)
afterTierDecision_skipResolve == "loop"

afterTierDecision == "resolve"

(* return; // success *)
afterSuccess_noReturn(i) == [pc |-> "loop", idx |-> i + 1]

afterSuccess(i) == [pc |-> "done", idx |-> i]

(* The catch block of the fallback loop: remember the error, go on with the *)
(* next chain entry; the response is not touched.                           *)
catchAttempt_respond(r, i, err) ==
    [pc |-> "done", idx |-> i, outcome |-> "auth_error",
     res |-> res_endWith(res_writeHead(r, "router", "401").res, "router", "auth_error", err)]

(* A variant that tries the failed chain entry again. *)
catchAttempt_retry(r, i, err) == [pc |-> "loop", idx |-> i, outcome |-> "none", res |-> r]

catchAttempt(r, i, err) == [pc |-> "loop", idx |-> i + 1, outcome |-> "none", res |-> r]

(* After the loop: all tiers exhausted. *)
respondExhausted_noMessage(r, err) ==
    LET h == IF ~r.headersSent THEN res_writeHead(r, "router", "502").res ELSE r IN
    IF ~h.writableEnded THEN res_endWith(h, "router", "router_error", NoError) ELSE h

respondExhausted(r, err) ==
    LET h == IF ~r.headersSent THEN res_writeHead(r, "router", "502").res ELSE r IN
    IF ~h.writableEnded THEN res_endWith(h, "router", "router_error", err) ELSE h

(* startProxy's catch: an error that escaped handleChatCompletion. *)
respondProxyError(r, err) ==
    LET h == IF ~r.headersSent THEN res_writeHead(r, "router", "502").res ELSE r IN
    IF ~h.writableEnded THEN res_endWith(h, "router", "proxy_error", err) ELSE h

respondInvalidJson_asProxyError(r) ==
    res_endWith(res_writeHead(r, "router", "502").res, "router", "proxy_error", NoError)

respondInvalidJson(r) ==
    res_endWith(res_writeHead(r, "router", "400").res, "router", "invalid_request", NoError)

(* sent (history): the request the attempt handed to fetch(). *)
NoCur == [tier |-> "", strategy |-> "", chunks |-> 0, hookFired |-> FALSE, lastEvent |-> "",
          waited |-> 0, sent |-> NoRequest]

NoAttempts == <<>>

(* upstream (history): what the attempt's fetch() settled with. *)
Attempt(t, strategy, result, outLen, wrote) ==
    [tier |-> t, strategy |-> strategy, outcome |-> result, outLen |-> outLen, wrote |-> wrote,
     upstream |-> NoResponse]

----------------------------------------------------------------------------
(* Store actions *)

StoreState0 ==
    /\ now = 0
    /\ nextSweep = SweepInterval
    /\ pendingOverrides = [k \in Keys |-> NoEntry]
    /\ setLog = [k \in Keys |-> NoSet]
    /\ nConsumes = [k \in Keys |-> 0]
    /\ nHits = [k \in Keys |-> 0]
    /\ lastConsume = NoConsume
    /\ nSets = 0

NoUse == [used |-> FALSE, at |-> 0, readAt |-> 0, value |-> FALSE]

CacheState0 ==
    /\ nextRefresh = RefreshInterval
    /\ cacheReadAt = 0
    /\ flagUse = NoUse
    /\ primaryEditedAt = -1

RequestState0 ==
    /\ cachedIsRouterPrimary = "undefined"
    /\ pc = "idle"
    /\ body = NoBody
    /\ tier = "MEDIUM"
    /\ classification = NoClassification
    /\ userText = NoText
    /\ sessions = NoSessions
    /\ reader = NoReader
    /\ tierConfig = [t \in Tiers |-> NoSpec]
    /\ steps = <<>>
    /\ idx = 1
    /\ cur = NoCur
    /\ res = NewResponse
    /\ lastError = NoError
    /\ attempts = NoAttempts
    /\ outcome = "none"
    /\ CacheState0

(* The store on its own: no request is in progress. *)
StoreInit ==
    /\ StoreState0
    /\ env = [tiers |-> DEFAULT_TIERS,
              creds |-> [p \in DOMAIN WELL_KNOWN_BASE_URLS |-> DirectKey],
              primary |-> FALSE, rev |-> 0]
    /\ RequestState0

(* A caller sets an override (the tests, the override strategy). *)
SetOverrideFor(prompts, traced) ==
    \E p \in prompts, b \in Backends :
        /\ nSets < MaxSets
        /\ pendingOverrides' = setPendingOverride(pendingOverrides, p, b.model, b.provider, now)
        /\ RecordSet(p, b.model, b.provider, traced)
        /\ nSets' = nSets + 1
        /\ UNCHANGED <<now, nextSweep, lastConsume>>
        /\ UNCHANGED reqVars

SetOverride == SetOverrideFor(StorePrompts, FALSE)

(* The before_model_resolve hook (or a test) consumes for a prompt. *)
ConsumeOverrideFor(prompts, traced) ==
    \E p \in prompts :
        LET c == consumeOverride(pendingOverrides, p, now) IN
        /\ pendingOverrides' = c.store
        /\ RecordConsume(p, c, traced)
        /\ UNCHANGED <<now, nextSweep, setLog, nSets>>
        /\ UNCHANGED reqVars

ConsumeOverride == ConsumeOverrideFor(StorePrompts, FALSE)

(* The setInterval callback of cleanupInterval, every SweepInterval. *)
Sweep ==
    /\ now = nextSweep
    /\ pendingOverrides' = cleanupInterval(pendingOverrides, now)
    /\ nextSweep' = nextSweep + SweepInterval
    /\ UNCHANGED <<now, setLog, nConsumes, nHits, lastConsume, nSets>>
    /\ UNCHANGED reqVars

(* Time passes; a due sweep runs before the clock moves past it. *)
Tick ==
    /\ now < MaxTime
    /\ now < nextSweep
    /\ now' = now + 1
    /\ UNCHANGED <<nextSweep, pendingOverrides, setLog, nConsumes, nHits, lastConsume, nSets>>
    /\ UNCHANGED reqVars

StoreNext == SetOverride \/ ConsumeOverride \/ Sweep \/ Tick

SpecStore == StoreInit /\ [][StoreNext]_vars

(* Delegated-with-override calls and the gateway sessions they create.      *)
(* The bodies: a 500-character prompt, a 750-character one with the same    *)
(* beginning after earlier turns, and a body without a user message.        *)
SessionMessages ==
    { <<Msg("user", Str(<<"a", "b">>))>>,
      <<Msg("system", Str(<<"s">>)), Msg("user", Str(<<"b">>)),
        Msg("assistant", Str(<<"x">>)), Msg("user", Str(<<"a", "b", "c">>))>>,
      <<Msg("system", Str(<<"s">>))>> }

(* gatewayOverrideProvider.chatCompletion up to the await: the override is  *)
(* written under the prompt of the body, then the gateway is called.        *)
DelegatedCall(c) ==
    /\ sessions[c].phase = "idle"
    /\ \E messages \in SessionMessages, b \in Backends :
         LET userPrompt == extractUserPromptFromBody([NoBody EXCEPT !.messages = messages]) IN
         /\ pendingOverrides' =
                setPendingOverride(pendingOverrides, userPrompt, b.model, b.provider, now)
         /\ sessions' = [sessions EXCEPT ![c] =
                [NoSession EXCEPT !.phase = "called", !.messages = messages,
                                  !.prompt = userPrompt, !.provider = b.provider,
                                  !.model = b.model, !.at = now]]
    /\ UNCHANGED <<now, nextSweep, setLog, nConsumes, nHits, lastConsume, nSets>>
    /\ UNCHANGED cacheVars
    /\ UNCHANGED <<env, cachedIsRouterPrimary, pc, body, tier, classification, userText, reader,
                   tierConfig, steps, idx, cur, res, lastError, attempts, outcome>>

(* The before_model_resolve handler, for a session with the given prompt. *)
beforeModelResolve(store, prompt, t) ==
    IF prompt = <<>>
      THEN [result |-> NoOverride, store |-> store]
      ELSE consumeOverride(store, prompt, t)

(* The gateway starts the session of call c; the hook gets the session's    *)
(* prompt, the user prompt of the request the gateway was sent.             *)
SessionHook(c) ==
    /\ sessions[c].phase = "called"
    /\ LET h == beforeModelResolve(pendingOverrides, sessions[c].prompt, now) IN
       /\ pendingOverrides' = h.store
       /\ sessions' = [sessions EXCEPT ![c].phase = "hooked", ![c].hooked = TRUE,
                                       ![c].got = h.result,
                                       ![c].inTime = (now <= sessions[c].at + TTL),
                                       ![c].at = 0]
    /\ UNCHANGED <<now, nextSweep, setLog, nConsumes, nHits, lastConsume, nSets>>
    /\ UNCHANGED cacheVars
    /\ UNCHANGED <<env, cachedIsRouterPrimary, pc, body, tier, classification, userText, reader,
                   tierConfig, steps, idx, cur, res, lastError, attempts, outcome>>

(* await gatewayProvider.chatCompletion(...) returns or throws, with or     *)
(* without a session having been started: nothing touches the store.        *)
CallEnds(c) ==
    /\ sessions[c].phase \in {"called", "hooked"}
    /\ sessions' = [sessions EXCEPT ![c].phase = "ended", ![c].at = 0]
    /\ UNCHANGED storeVars
    /\ UNCHANGED cacheVars
    /\ UNCHANGED <<env, cachedIsRouterPrimary, pc, body, tier, classification, userText, reader,
                   tierConfig, steps, idx, cur, res, lastError, attempts, outcome>>

(* A gateway session that no delegated call created starts: the hook runs   *)
(* with its prompt.                                                         *)
OtherSession ==
    /\ sessions[0].phase = "idle"
    /\ \E prompt \in StorePrompts :
         LET h == beforeModelResolve(pendingOverrides, prompt, now) IN
         /\ pendingOverrides' = h.store
         /\ sessions' = [sessions EXCEPT ![0] =
                [NoSession EXCEPT !.phase = "hooked", !.prompt = prompt, !.hooked = TRUE,
                                  !.got = h.result,
                                  !.alone = (\A c \in Calls :
                                                sessions[c].phase \in {"idle", "ended"})]]
    /\ UNCHANGED <<now, nextSweep, setLog, nConsumes, nHits, lastConsume, nSets>>
    /\ UNCHANGED cacheVars
    /\ UNCHANGED <<env, cachedIsRouterPrimary, pc, body, tier, classification, userText, reader,
                   tierConfig, steps, idx, cur, res, lastError, attempts, outcome>>

(* Time passes, up to the first sweep after an entry has expired. *)
SessionTick ==
    /\ now < TTL + 2
    /\ Tick

SessionsNext ==
    \/ \E c \in Calls : DelegatedCall(c)
    \/ \E c \in Calls : SessionHook(c)
    \/ \E c \in Calls : CallEnds(c)
    \/ OtherSession
    \/ Sweep
    \/ SessionTick

SpecSessions == StoreInit /\ [][SessionsNext]_vars

(* The store within one TTL: sets and consumes for prompts of different     *)
(* lengths.                                                                 *)
KeySet == SetOverrideFor(KeyPrompts, TRUE)

KeyConsume == ConsumeOverrideFor(KeyPrompts, TRUE)

KeyNext == KeySet \/ KeyConsume

SpecKey == StoreInit /\ [][KeyNext]_vars

----------------------------------------------------------------------------
(* The proxy: one request at a time through startProxy's handler            *)

Chain == FALLBACK_CHAIN[tier]

CurSpec == tierConfig[cur.tier]

Init ==
    /\ StoreState0
    /\ env \in Envs
    /\ RequestState0

(* POST /v1/chat/completions arrives: JSON.parse, then handleChatCompletion *)
(* up to the tier decision.  classified is the tier the classifier (rules,  *)
(* or the LLM it may ask) returns for the prompt.                           *)
Receive ==
    /\ pc = "idle"
    /\ \E b \in Bodies, wellFormed \in BOOLEAN :
        \E result \in (IF wellFormed /\ tierFromModelId(b.model) = "none"
                         THEN ClassifyResults ELSE {ClassificationResult("MEDIUM", 95)}) :
        \E llmTier \in (IF wellFormed /\ tierFromModelId(b.model) = "none"
                            /\ needsLlmClassification(result)
                          THEN Tiers ELSE {"MEDIUM"}) :
          IF ~wellFormed
            THEN /\ res' = respondInvalidJson(res)
                 /\ outcome' = "invalid_request"
                 /\ pc' = "done"
                 /\ steps' = <<"parse">>
                 /\ UNCHANGED <<body, tier, classification>>
            ELSE LET d == decideTier(b.model, result, llmTier) IN
                 /\ body' = b
                 /\ tier' = d.tier
                 /\ classification' = d.classification
                 /\ steps' = <<"parse", d.step>>
                 /\ pc' = afterTierDecision
                 /\ UNCHANGED <<res, outcome>>
    /\ UNCHANGED cacheVars
    /\ UNCHANGED <<env, cachedIsRouterPrimary, userText, sessions, reader, tierConfig, idx, cur, lastError, attempts>>
    /\ UNCHANGED storeVars

(* const tierConfig = loadTierConfig(...): a throw leaves the handler and   *)
(* is answered by startProxy's catch.                                       *)
ResolveTiers ==
    /\ pc = "resolve"
    /\ steps' = Append(steps, "resolve")
    /\ LET loaded == loadTierConfig(env) IN
       IF loaded.threw
         THEN /\ res' = respondProxyError(res, loaded.err)
              /\ outcome' = "proxy_error"
              /\ pc' = "done"
              /\ UNCHANGED <<tierConfig, idx>>
         ELSE /\ tierConfig' = loaded.config
              /\ idx' = 1
              /\ pc' = "loop"
              /\ UNCHANGED <<res, outcome>>
    /\ UNCHANGED cacheVars
    /\ UNCHANGED <<env, cachedIsRouterPrimary, body, tier, classification, userText, sessions, reader, cur, lastError, attempts>>
    /\ UNCHANGED storeVars

(* One pass of the for-loop up to the await of fetch(): callProvider,       *)
(* resolveProvider, and for gateway-with-override the pending override.     *)
StartAttempt ==
    /\ pc = "loop"
    /\ idx <= Len(Chain)
    /\ LET t == Chain[idx]
           spec == tierConfig[t]
           chk == callProvider(spec)
       IN IF chk.threw
            THEN LET c == catchAttempt(res, idx, chk.err) IN
                 /\ lastError' = chk.err
                 /\ attempts' = Append(attempts,
                                   Attempt(t, "none", "failed", Len(c.res.out), FALSE))
                 /\ pc' = c.pc
                 /\ idx' = c.idx
                 /\ res' = c.res
                 /\ outcome' = c.outcome
                 /\ UNCHANGED <<cachedIsRouterPrimary, cur>>
                 /\ UNCHANGED storeVars
            ELSE LET p == resolveProvider(spec, cachedIsRouterPrimary, env) IN
                 /\ cachedIsRouterPrimary' = p.cache
                 /\ cur' = [tier |-> t, strategy |-> p.name, chunks |-> 0, hookFired |-> FALSE,
                            lastEvent |-> "", waited |-> 0,
                            sent |-> fetchRequest(p.name, body, spec, streamOf(body))]
                 /\ attempts' = Append(attempts,
                                   Attempt(t, p.name, "pending", Len(res.out), FALSE))
                 /\ pc' = "fetch"
                 /\ IF p.name = "gateway-with-override"
                      THEN /\ pendingOverrides' = gatewayOverrideProvider(pendingOverrides, body, spec, now)
                           /\ UNCHANGED <<now, nextSweep, setLog, nConsumes, nHits,
                                          lastConsume, nSets>>
                      ELSE UNCHANGED storeVars
                 /\ UNCHANGED <<idx, res, lastError, outcome>>
    /\ UNCHANGED cacheVars
    /\ UNCHANGED <<env, body, tier, classification, userText, sessions, reader, tierConfig, steps>>

(* The attempt in flight ends with a thrown Error. *)
FailAttempt(r, err, resp) ==
    LET c == catchAttempt(r, idx, err) IN
    /\ lastError' = err
    /\ attempts' = [attempts EXCEPT ![Len(attempts)] =
                      [Attempt(cur.tier, cur.strategy, "failed", Len(c.res.out),
                               Len(r.out) > attempts[Len(attempts)].outLen + 1)
                          EXCEPT !.upstream = resp]]
    /\ pc' = c.pc
    /\ idx' = c.idx
    /\ res' = c.res
    /\ outcome' = c.outcome
    /\ cur' = NoCur

(* The attempt in flight returns normally. *)
SucceedAttempt(r, resp) ==
    LET a == afterSuccess(idx) IN
    /\ attempts' = [attempts EXCEPT ![Len(attempts)] =
                      [Attempt(cur.tier, cur.strategy, "ok", Len(r.out), TRUE)
                          EXCEPT !.upstream = resp]]
    /\ pc' = a.pc
    /\ idx' = a.idx
    /\ res' = r
    /\ outcome' = IF a.pc = "done" THEN "success" ELSE outcome
    /\ cur' = NoCur
    /\ UNCHANGED lastError

(* fetch() settles: the provider handles the upstream response. *)
UpstreamResponds ==
    /\ pc = "fetch"
    /\ \E resp \in Responses(body.stream) :
        LET x == chatCompletion(cur.strategy, res, cur.tier, CurSpec, body.stream, resp) IN
        CASE x.state = "throw"     -> FailAttempt(x.res, x.err, resp)
          [] x.state = "done"      -> SucceedAttempt(x.res, resp)
          [] x.state = "streaming" -> /\ pc' = "stream"
                                      /\ res' = x.res
                                      /\ attempts' = [attempts EXCEPT
                                                        ![Len(attempts)].upstream = resp]
                                      /\ UNCHANGED <<idx, cur, lastError, outcome>>
    /\ UNCHANGED cacheVars
    /\ UNCHANGED <<env, cachedIsRouterPrimary, body, tier, classification, userText, sessions, reader, tierConfig, steps>>
    /\ UNCHANGED storeVars

(* reader.read() settles: a chunk, the end of the stream, or a failure.     *)
StreamChunk ==
    /\ pc = "stream"
    /\ cur.chunks < MaxChunks
    /\ \E ev \in (IF cur.strategy = "anthropic" THEN AnthropicEvents ELSE {"raw"}) :
        /\ res' = IF cur.strategy = "anthropic"
                    THEN convertAnthropicStream(res, cur.tier, ev)
                    ELSE passThroughChunk(res, cur.tier)
        /\ cur' = [cur EXCEPT !.chunks = @ + 1, !.lastEvent = ev]
    /\ UNCHANGED cacheVars
    /\ UNCHANGED <<env, cachedIsRouterPrimary, pc, body, tier, classification, userText, sessions, reader, tierConfig, steps, idx, lastError,
                   attempts, outcome>>
    /\ UNCHANGED storeVars

StreamEnd ==
    /\ pc = "stream"
    /\ SucceedAttempt(streamDone(res), attempts[Len(attempts)].upstream)
    /\ UNCHANGED cacheVars
    /\ UNCHANGED <<env, cachedIsRouterPrimary, body, tier, classification, userText, sessions, reader, tierConfig, steps>>
    /\ UNCHANGED storeVars

StreamError ==
    /\ pc = "stream"
    /\ FailAttempt(res, Err("read failed", CurSpec.provider, CurSpec.modelId, ""),
                   attempts[Len(attempts)].upstream)
    /\ UNCHANGED cacheVars
    /\ UNCHANGED <<env, cachedIsRouterPrimary, body, tier, classification, userText, sessions, reader, tierConfig, steps>>
    /\ UNCHANGED storeVars

(* The loop is over without a success. *)
Exhausted ==
    /\ pc = "loop"
    /\ idx > Len(Chain)
    /\ res' = respondExhausted(res, lastError)
    /\ outcome' = "exhausted"
    /\ pc' = "done"
    /\ UNCHANGED cacheVars
    /\ UNCHANGED <<env, cachedIsRouterPrimary, body, tier, classification, userText, sessions, reader, tierConfig, steps, idx, cur, lastError,
                   attempts>>
    /\ UNCHANGED storeVars

(* The gateway has received a delegated call and starts a session: the      *)
(* before_model_resolve hook runs with the session's prompt.                *)
GatewayHook ==
    /\ pc = "fetch"
    /\ cur.strategy \in {"gateway", "gateway-with-override"}
    /\ ~cur.hookFired
    /\ cur' = [cur EXCEPT !.hookFired = TRUE]
    /\ LET prompt == extractUserPromptFromBody(body) IN
       IF prompt = <<>>
         THEN UNCHANGED storeVars
         ELSE LET c == consumeOverride(pendingOverrides, prompt, now) IN
              /\ pendingOverrides' = c.store
              /\ UNCHANGED <<now, nextSweep, setLog, nConsumes, nHits, lastConsume, nSets>>
    /\ UNCHANGED cacheVars
    /\ UNCHANGED <<env, cachedIsRouterPrimary, pc, body, tier, classification, userText, sessions, reader, tierConfig, steps, idx, res,
                   lastError, attempts, outcome>>

(* setInterval(() => { cachedIsRouterPrimary = undefined }, 30_000) *)
RefreshCache ==
    /\ cachedIsRouterPrimary # "undefined"
    /\ cachedIsRouterPrimary' = cacheRefresh(cachedIsRouterPrimary)
    /\ UNCHANGED cacheVars
    /\ UNCHANGED <<env, pc, body, tier, classification, userText, sessions, reader, tierConfig, steps, idx, cur, res, lastError, attempts, outcome>>
    /\ UNCHANGED storeVars

(* The caller's connection closes while the request is being handled. *)
CallerCloses ==
    /\ pc \in {"resolve", "loop", "fetch", "stream"}
    /\ ~res.closed
    /\ res' = [res EXCEPT !.closed = TRUE, !.closedLen = res.delivered]
    /\ UNCHANGED cacheVars
    /\ UNCHANGED <<env, cachedIsRouterPrimary, pc, body, tier, classification, userText, sessions, reader, tierConfig, steps, idx, cur,
                   lastError, attempts, outcome>>
    /\ UNCHANGED storeVars

(* The response is finished; the server takes the next request. *)
NextRequest ==
    /\ pc = "done"
    /\ pc' = "idle"
    /\ body' = NoBody
    /\ tier' = "MEDIUM"
    /\ classification' = NoClassification
    /\ UNCHANGED <<userText, sessions, reader>>
    /\ tierConfig' = [t \in Tiers |-> NoSpec]
    /\ steps' = <<>>
    /\ idx' = 1
    /\ cur' = NoCur
    /\ res' = NewResponse
    /\ lastError' = NoError
    /\ attempts' = NoAttempts
    /\ outcome' = "none"
    /\ UNCHANGED cacheVars
    /\ UNCHANGED <<env, cachedIsRouterPrimary>>
    /\ UNCHANGED storeVars

Next ==
    \/ Receive
    \/ ResolveTiers
    \/ StartAttempt
    \/ UpstreamResponds
    \/ StreamChunk
    \/ StreamEnd
    \/ StreamError
    \/ Exhausted
    \/ GatewayHook
    \/ RefreshCache
    \/ NextRequest

Spec == Init /\ [][Next]_vars

(* The request loop when the handler's continuations run and every upstream *)
(* call returns or fails: the event loop resumes the handler after each     *)
(* await, a pending fetch settles, and a response body being read delivers  *)
(* its next chunk, its end or an error.                                     *)
SpecLive ==
    /\ Init /\ [][Next]_vars
    /\ WF_vars(ResolveTiers)
    /\ WF_vars(StartAttempt)
    /\ WF_vars(UpstreamResponds)
    /\ WF_vars(StreamChunk \/ StreamEnd \/ StreamError)
    /\ WF_vars(Exhausted)

(* A minute passes while the upstream call of the attempt in flight is      *)
(* pending: fetch() is called without a signal, nothing ends the wait.      *)
UpstreamWaits ==
    /\ pc \in {"fetch", "stream"}
    /\ cur.waited < MaxWait
    /\ cur' = [cur EXCEPT !.waited = @ + 1]
    /\ UNCHANGED cacheVars
    /\ UNCHANGED <<env, cachedIsRouterPrimary, pc, body, tier, classification, userText, sessions, reader, tierConfig, steps, idx, res,
                   lastError, attempts, outcome>>
    /\ UNCHANGED storeVars

(* The proxy with upstreams that may be slow. *)
SlowNext == Next \/ UpstreamWaits

SpecSlow == Init /\ [][SlowNext]_vars

(* The proxy with callers that may hang up. *)
CloseNext == Next \/ CallerCloses

SpecClose == Init /\ [][CloseNext]_vars

----------------------------------------------------------------------------
(* The proxy while the operator edits the configuration between requests.   *)
(* The configurations here hold direct API keys only, so every tier is      *)
(* called directly.                                                         *)

EditableEnvs == { e \in Envs : ~e.primary /\ \A p \in DOMAIN e.creds : ~e.creds[p].isOAuth }

ConfigInit ==
    /\ StoreState0
    /\ env \in EditableEnvs
    /\ RequestState0

(* The operator rewrites router-config.json or a credential. *)
EditConfig ==
    /\ pc = "idle"
    /\ \E e \in EditableEnvs :
        /\ env' = [e EXCEPT !.rev = 1]
        /\ [env' EXCEPT !.rev = 0] # [env EXCEPT !.rev = 0]
    /\ UNCHANGED cacheVars
    /\ UNCHANGED <<cachedIsRouterPrimary, pc, body, tier, classification, userText, sessions, reader, tierConfig, steps, idx, cur, res,
                   lastError, attempts, outcome>>
    /\ UNCHANGED storeVars

ConfigNext ==
    \/ EditConfig
    \/ Receive
    \/ ResolveTiers
    \/ StartAttempt
    \/ UpstreamResponds
    \/ StreamChunk
    \/ StreamEnd
    \/ StreamError
    \/ Exhausted
    \/ NextRequest

SpecConfig == ConfigInit /\ [][ConfigNext]_vars

----------------------------------------------------------------------------
(* resolveProvider on its own: any TierModelSpec a caller can pass, any     *)
(* state of the cached flag.                                                *)

ResolveInputs ==
    { [provider |-> p, modelId |-> <<"m">>, baseUrl |-> "url", apiKey |-> k,
       isAnthropic |-> a, isOAuth |-> o] :
        p \in {"anthropic", "openai", "some-provider"},
        k \in {"", "sk-key", "sk-ant-oat01"},
        a \in BOOLEAN, o \in BOOLEAN }

ResolveInit ==
    /\ StoreState0
    /\ env \in [tiers : {DEFAULT_TIERS},
                 creds : {[p \in DOMAIN WELL_KNOWN_BASE_URLS |-> DirectKey]},
                 primary : BOOLEAN, rev : {0}]
    /\ cachedIsRouterPrimary \in {"undefined", "true", "false"}
    /\ pc = "idle"
    /\ body = NoBody
    /\ tier = "MEDIUM"
    /\ classification = NoClassification
    /\ userText = NoText
    /\ sessions = NoSessions
    /\ reader = NoReader
    /\ tierConfig \in {[t \in Tiers |-> sp] : sp \in ResolveInputs}
    /\ steps = <<>>
    /\ idx = 1
    /\ cur = NoCur
    /\ res = NewResponse
    /\ lastError = NoError
    /\ attempts = NoAttempts
    /\ outcome = "none"
    /\ CacheState0

ApplyResolveProvider ==
    LET spec == tierConfig[tier]
        p == resolveProvider(spec, cachedIsRouterPrimary, env)
        readAt == IF spec.isOAuth /\ cachedIsRouterPrimary = "undefined" THEN now
                  ELSE cacheReadAt
    IN
    /\ cur' = [NoCur EXCEPT !.tier = tier, !.strategy = p.name]
    /\ cachedIsRouterPrimary' = p.cache
    /\ cacheReadAt' = readAt
    /\ flagUse' = IF spec.isOAuth
                    THEN [used |-> TRUE, at |-> now, readAt |-> readAt,
                          value |-> (p.name = "gateway-with-override")]
                    ELSE flagUse
    /\ UNCHANGED <<nextRefresh, primaryEditedAt>>
    /\ UNCHANGED <<env, pc, body, tier, classification, userText, sessions, reader, tierConfig, steps, idx, res, lastError, attempts,
                   outcome>>
    /\ UNCHANGED storeVars

ResolveNext == ApplyResolveProvider \/ RefreshCache

SpecResolve == ResolveInit /\ [][ResolveNext]_vars

----------------------------------------------------------------------------
(* The cached flag over time: resolutions for tiers with a delegated        *)
(* credential, the refresh timer, the clock, and an operator who changes    *)
(* the platform's primary model.                                            *)

CacheInit ==
    /\ StoreState0
    /\ env \in [tiers : {DEFAULT_TIERS},
                 creds : {[p \in DOMAIN WELL_KNOWN_BASE_URLS |-> DirectKey]},
                 primary : BOOLEAN, rev : {0}]
    /\ cachedIsRouterPrimary = "undefined"
    /\ pc = "idle"
    /\ body = NoBody
    /\ tier = "MEDIUM"
    /\ classification = NoClassification
    /\ userText = NoText
    /\ sessions = NoSessions
    /\ reader = NoReader
    /\ tierConfig \in {[t \in Tiers |-> sp] : sp \in {x \in ResolveInputs : x.apiKey # ""}}
    /\ steps = <<>>
    /\ idx = 1
    /\ cur = NoCur
    /\ res = NewResponse
    /\ lastError = NoError
    /\ attempts = NoAttempts
    /\ outcome = "none"
    /\ CacheState0

(* The _cacheInterval timer fires. *)
CacheTimer ==
    /\ now = nextRefresh
    /\ cachedIsRouterPrimary' = cacheRefresh(cachedIsRouterPrimary)
    /\ nextRefresh' = nextRefresh + RefreshInterval
    /\ UNCHANGED <<cacheReadAt, flagUse, primaryEditedAt>>
    /\ UNCHANGED <<env, pc, body, tier, classification, userText, sessions, reader, tierConfig, steps, idx, cur, res, lastError, attempts,
                   outcome>>
    /\ UNCHANGED storeVars

(* Time passes; a due timer fires before the clock moves past it. *)
CacheTick ==
    /\ now < MaxTime
    /\ now < nextRefresh
    /\ now' = now + 1
    /\ UNCHANGED <<nextSweep, pendingOverrides, setLog, nConsumes, nHits, lastConsume, nSets>>
    /\ UNCHANGED reqVars

(* The operator changes agents.defaults.model.primary in openclaw.json. *)
EditPrimary ==
    /\ env' = [env EXCEPT !.primary = ~@, !.rev = 1]
    /\ primaryEditedAt' = now
    /\ UNCHANGED <<nextRefresh, cacheReadAt, flagUse>>
    /\ UNCHANGED <<cachedIsRouterPrimary, pc, body, tier, classification, userText, sessions, reader, tierConfig, steps, idx, cur, res,
                   lastError, attempts, outcome>>
    /\ UNCHANGED storeVars

CacheNext == ApplyResolveProvider \/ CacheTimer \/ CacheTick \/ EditPrimary

SpecCache == CacheInit /\ [][CacheNext]_vars

----------------------------------------------------------------------------
(* Single functions on their own.  The server is idle; b is the body and tc *)
(* the TierConfig the function is applied to.                               *)

PureState(b, tc, text) ==
    /\ StoreState0
    /\ env = [tiers |-> DEFAULT_TIERS,
              creds |-> [p \in DOMAIN WELL_KNOWN_BASE_URLS |-> DirectKey],
              primary |-> FALSE, rev |-> 0]
    /\ cachedIsRouterPrimary = "undefined"
    /\ pc = "idle"
    /\ body = b
    /\ tier = "MEDIUM"
    /\ classification = NoClassification
    /\ userText = text
    /\ sessions = NoSessions
    /\ reader = NoReader
    /\ tierConfig = tc
    /\ steps = <<>>
    /\ idx = 1
    /\ cur = NoCur
    /\ res = NewResponse
    /\ lastError = NoError
    /\ attempts = NoAttempts
    /\ outcome = "none"
    /\ CacheState0

(* The strategies' outbound requests: bodies with any subset of the fields  *)
(* of FullBody (store and metadata are not standard chat-completion         *)
(* fields), any TierModelSpec with a key.                                   *)
FullBody ==
    [messages |-> <<Msg("system", Str(<<"s">>)), Msg("user", Str(<<"a", "b">>))>>,
     model |-> <<"auto">>, stream |-> TRUE, temperature |-> 7, max_tokens |-> 100,
     store |-> TRUE, metadata |-> "m"]

SendBodies ==
    { [k \in D |-> FullBody[k]] : D \in SUBSET DOMAIN FullBody }

SendInit ==
    \E b \in SendBodies, sp \in {x \in ResolveInputs : x.apiKey # ""} :
        PureState(b, [t \in Tiers |-> sp], NoText)

(* callProvider for the tier, up to the call of fetch(). *)
CallProvider ==
    /\ pc = "idle"
    /\ LET spec == tierConfig[tier]
           p == resolveProvider(spec, cachedIsRouterPrimary, env)
       IN /\ cachedIsRouterPrimary' = p.cache
          /\ cur' = [NoCur EXCEPT !.tier = tier, !.strategy = p.name,
                                  !.sent = fetchRequest(p.name, body, spec, streamOf(body))]
    /\ pc' = "fetch"
    /\ UNCHANGED cacheVars
    /\ UNCHANGED <<env, body, tier, classification, userText, sessions, reader, tierConfig, steps, idx, res, lastError,
                   attempts, outcome>>
    /\ UNCHANGED storeVars

SpecSend == SendInit /\ [][CallProvider]_vars

(* classify: prompts on both sides of each threshold of the overrides.      *)
(* 400003 characters are 100000 estimated tokens, 400004 are 100001.        *)
TextLengths == {0, 300, 301, 400003, 400004}

TextScores == {-10, -1, 0, 15, 29, 30, 40, 49, 50, 60}

Texts ==
    [length : TextLengths, reasoning : 0..MaxMatches, technical : 0..MaxMatches,
     imperative : 0..MaxMatches, agentic : 0..MaxMatches, multiStep : BOOLEAN,
     score : TextScores]

ClassifyInit ==
    \E text \in Texts : PureState(NoBody, [t \in Tiers |-> NoSpec], text)

(* const result = classify(prompt) *)
ApplyClassify ==
    /\ pc = "idle"
    /\ pc' = "done"
    /\ LET result == classify(userText) IN
       /\ tier' = result.tier
       /\ classification' = [called |-> TRUE, tier |-> result.tier,
                             confidence |-> result.confidence, llmAsked |-> FALSE]
    /\ UNCHANGED cacheVars
    /\ UNCHANGED <<env, cachedIsRouterPrimary, body, userText, sessions, reader, tierConfig, steps, idx, cur, res,
                   lastError, attempts, outcome>>
    /\ UNCHANGED storeVars

SpecClassify == ClassifyInit /\ [][ApplyClassify]_vars

(* The dimension scores: prompts of 49, 50, 500 and 501 estimated tokens,   *)
(* with and without a multi-step pattern, including up to MaxMatches + 2    *)
(* keywords of one list (question marks for the question dimension).        *)
ZeroText ==
    [length |-> 200, code |-> 0, reasoning |-> 0, technical |-> 0, creative |-> 0,
     simple |-> 0, multiStep |-> FALSE, questions |-> 0, imperative |-> 0, constraints |-> 0,
     format |-> 0, references |-> 0, negation |-> 0, domain |-> 0, agentic |-> 0]

CountFields == DOMAIN ZeroText \ {"length", "multiStep"}

DimLengths == {196, 200, 2000, 2004}

DimTexts ==
    { [ZeroText EXCEPT ![f] = n, !.length = l, !.multiStep = m] :
        f \in CountFields, n \in 0..(MaxMatches + 2), l \in DimLengths, m \in BOOLEAN }

DimInit ==
    \E text \in DimTexts : PureState(NoBody, [t \in Tiers |-> NoSpec], text)

(* classify, up to the weighted sum. *)
ApplyDimScores ==
    /\ pc = "idle"
    /\ pc' = "scored"
    /\ classification' = [called |-> TRUE, tier |-> "", confidence |-> 0, llmAsked |-> FALSE,
                          dimScores |-> dimScores(userText),
                          terms |-> [d \in DOMAIN WEIGHTS |-> contribution(userText, d)]]
    /\ UNCHANGED cacheVars
    /\ UNCHANGED <<env, cachedIsRouterPrimary, body, tier, userText, sessions, reader, tierConfig, steps, idx, cur,
                   res, lastError, attempts, outcome>>
    /\ UNCHANGED storeVars

SpecDims == DimInit /\ [][ApplyDimScores]_vars

----------------------------------------------------------------------------
(* The stream translations on their own: an upstream body, read in chunks   *)
(* of any sizes.                                                            *)

(* The lines a body is made of: the five events, a data line cut short, a   *)
(* line that is not a data line, and the empty line between events.         *)
StreamLines ==
    { <<"data: ", p, "}">> : p \in Payloads }
    \cup { <<"data: ", "{content_block_delta">>, <<"event: x">>, <<>> }

RECURSIVE joinLines(_)
joinLines(lines) ==
    IF lines = <<>> THEN <<>> ELSE Head(lines) \o <<LF>> \o joinLines(Tail(lines))

(* Up to MaxLines lines, the last one with or without its line feed. *)
StreamBodies ==
    LET ended == UNION { { joinLines(ls) : ls \in [1..n -> StreamLines] } : n \in 0..MaxLines }
    IN  ended \cup { SubSeq(b, 1, Len(b) - 1) : b \in ended \ {<<>>} }

StreamInit ==
    /\ StoreState0
    /\ env = [tiers |-> DEFAULT_TIERS,
              creds |-> [p \in DOMAIN WELL_KNOWN_BASE_URLS |-> DirectKey],
              primary |-> FALSE, rev |-> 0]
    /\ cachedIsRouterPrimary = "undefined"
    /\ pc = "stream"
    /\ body = NoBody
    /\ tier = "MEDIUM"
    /\ classification = NoClassification
    /\ userText = NoText
    /\ sessions = NoSessions
    /\ \E fn \in {"convertAnthropicStream", "handleAnthropicStream"}, text \in StreamBodies :
         reader = [NoReader EXCEPT !.fn = fn, !.phase = "reading", !.text = text,
                                   !.rest = text]
    /\ tierConfig = [t \in Tiers |-> NoSpec]
    /\ steps = <<>>
    /\ idx = 1
    /\ cur = NoCur
    /\ res = NewResponse
    /\ lastError = NoError
    /\ attempts = NoAttempts
    /\ outcome = "none"
    /\ CacheState0

(* reader.read() yields the next n pieces of the body. *)
ReadValue ==
    /\ reader.phase = "reading"
    /\ \E n \in 1..Len(reader.rest) :
         LET value == SubSeq(reader.rest, 1, n)
             step  == IF reader.fn = "convertAnthropicStream"
                        THEN convertAnthropicStream_read(res, tier, reader.buffer, value)
                        ELSE handleAnthropicStream_read(res, tier, reader.buffer, value)
         IN  /\ res' = step.res
             /\ reader' = [reader EXCEPT
                    !.phase = IF step.threw THEN "threw" ELSE "reading",
                    !.rest = SubSeq(reader.rest, n + 1, Len(reader.rest)),
                    !.buffer = step.buffer,
                    !.inside = @ \/ (Len(step.buffer) > 1 /\ step.buffer[1] = "data: "),
                    !.reads = @ + 1]
    /\ UNCHANGED cacheVars
    /\ UNCHANGED <<env, cachedIsRouterPrimary, pc, body, tier, classification, userText,
                   sessions, tierConfig, steps, idx, cur, lastError, attempts, outcome>>
    /\ UNCHANGED storeVars

(* reader.read() reports the end of the body. *)
ReadDone ==
    /\ reader.phase = "reading"
    /\ reader.rest = <<>>
    /\ res' = IF reader.fn = "convertAnthropicStream"
                THEN convertAnthropicStream_done(res, tier, reader.buffer)
                ELSE handleAnthropicStream_done(res, tier, reader.buffer)
    /\ reader' = [reader EXCEPT !.phase = "done"]
    /\ UNCHANGED cacheVars
    /\ UNCHANGED <<env, cachedIsRouterPrimary, pc, body, tier, classification, userText,
                   sessions, tierConfig, steps, idx, cur, lastError, attempts, outcome>>
    /\ UNCHANGED storeVars

StreamNext == ReadValue \/ ReadDone

SpecStream == StreamInit /\ [][StreamNext]_vars

(* What the function writes when the whole body arrives in one read. *)
writtenInOneRead(fn, text) ==
    LET step == IF fn = "convertAnthropicStream"
                  THEN convertAnthropicStream_read(NewResponse, "MEDIUM", <<>>, text)
                  ELSE handleAnthropicStream_read(NewResponse, "MEDIUM", <<>>, text)
    IN  IF step.threw THEN step.res.out
        ELSE IF fn = "convertAnthropicStream"
          THEN convertAnthropicStream_done(step.res, "MEDIUM", step.buffer).out
          ELSE handleAnthropicStream_done(step.res, "MEDIUM", step.buffer).out

(* tierFromModelId: the identifiers a request can carry, up to MaxIdLen     *)
(* pieces each.                                                             *)
IdPieces == {"claw-llm-router/", "CLAW-LLM-ROUTER/", "sim", "ple", "SIM", "medium",
             "Reasoning", "auto", "constructor"}

ModelIdInputs == UNION { [1..n -> IdPieces] : n \in 1..MaxIdLen }

TierInit ==
    \E m \in ModelIdInputs : PureState([NoBody EXCEPT !.model = m], [t \in Tiers |-> NoSpec], NoText)

(* tier holds the returned value. *)
ApplyTierFromModelId ==
    /\ pc = "idle"
    /\ tier' = tierFromModelId(body.model)
    /\ pc' = "done"
    /\ UNCHANGED cacheVars
    /\ UNCHANGED <<env, cachedIsRouterPrimary, body, classification, userText, sessions, reader, tierConfig, steps, idx, cur,
                   res, lastError, attempts, outcome>>
    /\ UNCHANGED storeVars

SpecTier == TierInit /\ [][ApplyTierFromModelId]_vars

----------------------------------------------------------------------------
(* Claims about the override store, checked under SpecStore                 *)

(* C7 as stated: after a set for P, the first consume for P returns the     *)
(* stored {model, provider}.                                                *)
C7_FirstConsumeReturnsStored ==
    (lastConsume.done /\ lastConsume.first) => lastConsume.result = lastConsume.stored

(* C7 amended: the first consume after a set returns the stored {model,     *)
(* provider} when it happens no later than the expiry (TTL after the set),  *)
(* every later consume with no new set in between returns nothing, and so   *)
(* no set is answered by more than one consume.                             *)
C7_ConsumedAtMostOnce ==
    /\ \A k \in Keys : nHits[k] <= 1
    /\ (lastConsume.done /\ lastConsume.first /\ ~lastConsume.expired)
          => lastConsume.result = lastConsume.stored
    /\ (lastConsume.done /\ ~lastConsume.first) => ~lastConsume.result.found

C7_Witness ==
    /\ lastConsume.done /\ ~lastConsume.first /\ ~lastConsume.result.found
    /\ setLog[lastConsume.key].done
    /\ nHits[lastConsume.key] = 1

(* C8: a consume made more than TTL after the set never returns the entry,  *)
(* also when the entry is still in the map because no sweep has run.        *)
C8_ExpiredNeverReturned ==
    (lastConsume.done /\ lastConsume.expired) => ~lastConsume.result.found

C8_Witness ==
    /\ lastConsume.done /\ lastConsume.expired /\ lastConsume.held
    /\ ~lastConsume.result.found

(* C9 as stated: no entry is in the store after its expiry instant.         *)
C9_NoEntryPastExpiry ==
    \A k \in Keys : pendingOverrides[k].present => now <= setLog[k].at + TTL

(* C9 amended: an entry may stay in the store past its expiry, but only     *)
(* until the next periodic sweep: none is left more than one sweep period   *)
(* after its expiry.                                                        *)
C9_GoneOneSweepAfterExpiry ==
    \A k \in Keys :
        pendingOverrides[k].present => now <= setLog[k].at + TTL + SweepInterval

C9_Witness ==
    \E k \in Keys :
        /\ setLog[k].done /\ nConsumes[k] = 0
        /\ now > setLog[k].at + TTL
        /\ ~pendingOverrides[k].present

(* The store when the interception point never fires: overrides are set    *)
(* and never consumed.  The timer of the sweep fires on schedule and the    *)
(* clock advances.                                                          *)
UnconsumedNext == SetOverride \/ Sweep \/ Tick

SpecStoreLive ==
    StoreInit /\ [][UnconsumedNext]_vars /\ WF_vars(Sweep) /\ WF_vars(Tick)

(* C11: an entry whose TTL has elapsed, with a run of the sweep still ahead *)
(* within the horizon, is eventually gone from the store, consumed or not:  *)
(* the key then holds no entry, or a newer one that has not expired.        *)
C11_ExpiredEventuallySwept ==
    \A k \in {makeKey(p) : p \in StorePrompts} :
        (pendingOverrides[k].present /\ now > pendingOverrides[k].expires
            /\ nextSweep <= MaxTime)
        ~> ~(pendingOverrides[k].present /\ now > pendingOverrides[k].expires)

C11_Witness ==
    \E k \in Keys :
        /\ setLog[k] # NoSet
        /\ nConsumes[k] = 0
        /\ ~pendingOverrides[k].present
        /\ now = nextSweep - SweepInterval
        /\ now > 0

----------------------------------------------------------------------------
(* Claims about the request orchestrator, checked under Spec                *)

LastAttempt == attempts[Len(attempts)]

(* C1: when a tier attempt fails and a later tier succeeds, all the caller  *)
(* observes is the successful tier's response: status 200, and no header,   *)
(* body byte or error written by a failed attempt or by the router.         *)
C1_OnlySuccessfulTierObserved ==
    outcome = "success" =>
        /\ res.statusCode = "200"
        /\ res.writableEnded
        /\ \A i \in DOMAIN res.out :
              /\ res.out[i].src = LastAttempt.tier
              /\ res.out[i].err = NoError
        /\ \A i \in DOMAIN attempts : attempts[i].outcome = "failed" => ~attempts[i].wrote

C1_Witness ==
    /\ outcome = "success"
    /\ Len(attempts) >= 2
    /\ attempts[1].outcome = "failed" /\ attempts[1].strategy # "none"
    /\ Len(res.out) >= 2

(* C2: attempts follow the fallback chain in order, one at a time: every    *)
(* attempt but the last has failed, only the last can be in flight, and a   *)
(* successful attempt is the last one and ends the request.                 *)
C2_SequentialInChainOrder ==
    /\ Len(attempts) <= Len(Chain)
    /\ \A i \in DOMAIN attempts :
          /\ attempts[i].tier = Chain[i]
          /\ i < Len(attempts) => attempts[i].outcome = "failed"
          /\ attempts[i].outcome = "ok" => (pc = "done" /\ outcome = "success")
          /\ attempts[i].outcome = "pending" => pc \in {"fetch", "stream"}
    /\ pc \in {"fetch", "stream"} => (attempts # <<>> /\ LastAttempt.outcome = "pending")

C2_Witness ==
    /\ Len(attempts) = 3
    /\ attempts[3].outcome = "ok"
    /\ attempts[1].strategy # "none" /\ attempts[2].strategy # "none"

(* C3: when every tier of the chain has failed, the caller's response is    *)
(* one error response: status 502 and a router_error envelope carrying the  *)
(* last per-tier error.                                                     *)
C3_ExhaustedIsOne502 ==
    outcome = "exhausted" =>
        /\ res.statusCode = "502"
        /\ res.writableEnded
        /\ res.out = <<Item("router", "head", "502", NoError),
                       Item("router", "body", "router_error", lastError)>>

(* C3 amended: when every tier of the chain has failed and no attempt had   *)
(* written to the caller's response, the response is one error response:    *)
(* status 502 and a router_error envelope carrying the last per-tier error. *)
C3_ExhaustedUnwrittenIsOne502 ==
    (outcome = "exhausted" /\ \A i \in DOMAIN res.out : res.out[i].src = "router") =>
        /\ res.statusCode = "502"
        /\ res.writableEnded
        /\ lastError # NoError
        /\ res.out = <<Item("router", "head", "502", NoError),
                       Item("router", "body", "router_error", lastError)>>

C3_Witness ==
    /\ outcome = "exhausted"
    /\ Len(attempts) = 3
    /\ res.statusCode = "502"
    /\ lastError.kind = "http"

(* C4: for a well-formed request the only error response the caller can get *)
(* is the one for the exhausted fallback chain.                             *)
C4_OnlyExhaustionReachesCaller ==
    (pc = "done" /\ outcome # "invalid_request") => outcome \in {"success", "exhausted"}

(* C5: an attempt for a tier without credential fails, without a provider   *)
(* call and without touching the response, with a MissingApiKeyError that   *)
(* carries provider, model id and the credential's env var; the loop then   *)
(* goes on with the next chain entry.                                       *)
C5_MissingCredentialFallsBack ==
    \A i \in DOMAIN attempts :
        LET spec == tierConfig[attempts[i].tier] IN
        spec.apiKey = "" =>
            /\ attempts[i].outcome = "failed"
            /\ attempts[i].strategy = "none"
            /\ ~attempts[i].wrote
            /\ i = Len(attempts) =>
                  /\ lastError.kind = "MissingApiKeyError"
                  /\ lastError.provider = spec.provider
                  /\ lastError.model = spec.modelId
                  /\ lastError.info = envVarName(spec.provider)
                  /\ (pc = "loop" /\ idx = i + 1) \/ (pc = "done" /\ outcome = "exhausted")
                  /\ i < Len(Chain) => (pc = "loop" /\ outcome = "none")

C5_Witness ==
    /\ Len(attempts) >= 2
    /\ tierConfig[attempts[1].tier].apiKey = ""
    /\ attempts[1].outcome = "failed"
    /\ attempts[2].outcome = "ok"

(* C6: after a streaming attempt has failed with bytes of its stream        *)
(* already written, nothing more is written to the caller's response.       *)
C6_MidStreamFailureJustStops ==
    \A i \in DOMAIN attempts :
        (attempts[i].outcome = "failed" /\ attempts[i].wrote)
            => Len(res.out) = attempts[i].outLen

(* C10: while a delegated call of the gateway-with-override strategy is in  *)
(* flight and no hook has consumed it, the store holds the Pending Override *)
(* under the key of the most recent user message, with the real provider    *)
(* and model id: it was written before the call was issued.                 *)
MostRecentUserText(b) ==
    LET users == {i \in DOMAIN b.messages : b.messages[i].role = "user"} IN
    IF users = {} THEN <<>>
    ELSE LET last == CHOOSE i \in users : \A j \in users : j <= i
             c == b.messages[last].content
         IN IF c.kind = "string" THEN c.text ELSE joinTextParts(c.parts, 1, FALSE)

C10_OverrideWrittenBeforeDelegatedCall ==
    (pc = "fetch" /\ cur.strategy = "gateway-with-override" /\ ~cur.hookFired) =>
        pendingOverrides[makeKey(MostRecentUserText(body))] =
            [present |-> TRUE, model |-> CurSpec.modelId, provider |-> CurSpec.provider,
             expires |-> now + TTL]

C10_Witness ==
    /\ pc = "fetch" /\ cur.strategy = "gateway-with-override" /\ ~cur.hookFired
    /\ Len(body.messages) > 1
    /\ pendingOverrides[makeKey(MostRecentUserText(body))].present

(* C12: a request whose body is not valid JSON is answered at once with     *)
(* status 400 and an invalid_request envelope; no tier decision, no tier    *)
(* resolution and no tier attempt is made for it.                           *)
C12_InvalidJsonRejected ==
    outcome = "invalid_request" =>
        /\ res.statusCode = "400"
        /\ res.writableEnded
        /\ res.out = <<Item("router", "head", "400", NoError),
                       Item("router", "body", "invalid_request", NoError)>>
        /\ steps = <<"parse">>
        /\ attempts = NoAttempts
        /\ tierConfig = [t \in Tiers |-> NoSpec]
        /\ body = NoBody

C12_Witness ==
    /\ pc = "done"
    /\ outcome = "invalid_request"
    /\ res.headersSent

(* C13: within one request the tier decision (classifier or forced tier)    *)
(* is made before the tier configuration is loaded, and the configuration   *)
(* is loaded before the first attempt.                                      *)
C13_ClassifyResolveAttemptOrder ==
    /\ Len(steps) <= 3
    /\ Len(steps) >= 1 => steps[1] = "parse"
    /\ Len(steps) >= 2 => steps[2] \in {"classify", "force"}
    /\ Len(steps) >= 3 => steps[3] = "resolve"
    /\ pc = "resolve" => (Len(steps) = 2 /\ attempts = NoAttempts
                            /\ tierConfig = [t \in Tiers |-> NoSpec])
    /\ (\E t \in Tiers : tierConfig[t] # NoSpec) => Len(steps) = 3
    /\ attempts # NoAttempts => (Len(steps) = 3 /\ \A t \in Tiers : tierConfig[t] # NoSpec)

C13_Witness ==
    /\ steps = <<"parse", "classify", "resolve">>
    /\ Len(attempts) >= 2
    /\ tier = "SIMPLE"

C15_ConfigReadPerRequest ==
    /\ (Len(steps) = 3 /\ outcome # "proxy_error") =>
          \A t \in Tiers :
              /\ <<tierConfig[t].provider, "/">> \o tierConfig[t].modelId = env.tiers[t]
              /\ tierConfig[t].apiKey = env.creds[tierConfig[t].provider].key
    /\ (Len(steps) = 3 /\ outcome = "proxy_error") =>
          \E t \in Tiers : indexOf(env.tiers[t], "/", 1) = 0

C15_Witness ==
    /\ env.rev = 1
    /\ pc = "fetch"
    /\ env.tiers # DEFAULT_TIERS
    /\ <<CurSpec.provider, "/">> \o CurSpec.modelId = env.tiers[cur.tier]
    /\ CurSpec.provider = "openai"

(* C16: the flag resolveProvider uses was read from the configuration at    *)
(* most RefreshInterval (30 s) before the use, and a use made more than     *)
(* RefreshInterval after the operator's last change has the changed value.  *)
C16_CachedFlagBounded ==
    /\ cachedIsRouterPrimary # "undefined" =>
          (cacheReadAt <= now /\ now - cacheReadAt <= RefreshInterval)
    /\ flagUse.used =>
          /\ flagUse.readAt <= flagUse.at
          /\ flagUse.at - flagUse.readAt <= RefreshInterval
          /\ (primaryEditedAt >= 0 /\ flagUse.at > primaryEditedAt + RefreshInterval)
                => flagUse.value = env.primary

C16_Witness ==
    /\ flagUse.used
    /\ primaryEditedAt >= 0
    /\ flagUse.at > primaryEditedAt + RefreshInterval
    /\ flagUse.readAt > primaryEditedAt
    /\ flagUse.value

(* C17: a streaming response the native adapter has completed without an   *)
(* Error ends with the sentinel: the last thing written is data: [DONE].    *)
C17_NativeStreamEndsWithDone ==
    (outcome = "success" /\ body.stream /\ LastAttempt.strategy = "anthropic") =>
        /\ res.writableEnded
        /\ res.out[Len(res.out)] = Item(LastAttempt.tier, "chunk", "[DONE]", NoError)

(* C18: the native adapter does not go on reading after a native error      *)
(* event: the event ends the attempt with an Error.                         *)
C18_ErrorEventAborts ==
    ~(pc = "stream" /\ cur.strategy = "anthropic" /\ cur.lastEvent = "error")

C20_UpstreamCallBounded ==
    pc \in {"fetch", "stream"} => cur.waited <= REQUEST_TIMEOUT_MS

(* C21: whatever the strategy, an upstream response with a non-2xx status   *)
(* fails the attempt without anything written to the caller: the Error      *)
(* names the model and carries the status and the first 300 characters of   *)
(* the upstream body, and the loop goes on with the next chain entry.       *)
C21_Non2xxFailsAttempt ==
    \A i \in DOMAIN attempts :
        LET u == attempts[i].upstream
            spec == tierConfig[attempts[i].tier]
        IN
        (u.kind = "http" /\ ~u.ok) =>
            /\ attempts[i].outcome = "failed"
            /\ ~attempts[i].wrote
            /\ attempts[i].outLen = (IF i = 1 THEN 0 ELSE attempts[i - 1].outLen)
            /\ i = Len(attempts) =>
                  /\ lastError.kind = "http"
                  /\ lastError.info = u.status
                  /\ lastError.model \in {spec.modelId, <<spec.provider, "/">> \o spec.modelId}
                  /\ Len(lastError.text) <= ErrTextLen
                  /\ Len(lastError.text) <= Len(u.errText)
                  /\ \A j \in 1..Len(u.errText) :
                        j <= ErrTextLen =>
                            (j <= Len(lastError.text) /\ lastError.text[j] = u.errText[j])
                  /\ (pc = "loop" /\ idx = i + 1) \/ (pc = "done" /\ outcome = "exhausted")
                  /\ i < Len(Chain) => (pc = "loop" /\ outcome = "none")

C21_Witness ==
    /\ Len(attempts) >= 2
    /\ attempts[1].strategy \in {"gateway", "gateway-with-override"}
    /\ attempts[1].upstream.kind = "http" /\ ~attempts[1].upstream.ok
    /\ attempts[2].strategy = "openai-compatible"
    /\ attempts[2].upstream.kind = "http" /\ ~attempts[2].upstream.ok
    /\ Len(attempts[2].upstream.errText) > ErrTextLen
    /\ Len(attempts) = 2
    /\ pc = "loop"
    /\ Len(lastError.text) = ErrTextLen

(* C22: the chain a request walks is the row of the fixed table for its     *)
(* tier, in every request the server handles: SIMPLE: SIMPLE, MEDIUM,       *)
(* COMPLEX; MEDIUM: MEDIUM, COMPLEX; COMPLEX: COMPLEX, REASONING;           *)
(* REASONING: REASONING.  The first tier attempted is the tier itself.      *)
C22_ChainIsFixedTable ==
    LET row == CASE tier = "SIMPLE"    -> <<"SIMPLE", "MEDIUM", "COMPLEX">>
                 [] tier = "MEDIUM"    -> <<"MEDIUM", "COMPLEX">>
                 [] tier = "COMPLEX"   -> <<"COMPLEX", "REASONING">>
                 [] tier = "REASONING" -> <<"REASONING">>
    IN
    /\ attempts # NoAttempts => attempts[1].tier = tier
    /\ Len(attempts) <= Len(row)
    /\ \A i \in DOMAIN attempts : attempts[i].tier = row[i]
    /\ outcome = "exhausted" => Len(attempts) = Len(row)

C22_Witness ==
    /\ tier = "COMPLEX"
    /\ outcome = "exhausted"
    /\ Len(attempts) = 2
    /\ attempts[1].tier = "COMPLEX"
    /\ attempts[2].tier = "REASONING"

(* C23: a request whose model id is a reserved virtual tier id is handled   *)
(* without a call of classify, and its fallback chain starts at the forced  *)
(* tier.                                                                    *)
C23_ForcedTierBypassesClassifier ==
    LET words == {<<"sim", "ple">>, <<"medium">>, <<"complex">>, <<"reasoning">>}
        reserved == words \cup {<<"claw-llm-router/">> \o w : w \in words}
        last == body.model[Len(body.model)]
    IN
    (Len(steps) >= 2 /\ body.model \in reserved) =>
        /\ ~classification.called
        /\ steps[2] = "force"
        /\ tier = CASE last = "ple"       -> "SIMPLE"
                     [] last = "medium"    -> "MEDIUM"
                     [] last = "complex"   -> "COMPLEX"
                     [] last = "reasoning" -> "REASONING"
        /\ attempts # NoAttempts => attempts[1].tier = tier

C23_Witness ==
    /\ body.model = <<"claw-llm-router/", "medium">>
    /\ steps = <<"parse", "force", "resolve">>
    /\ ~classification.called
    /\ Len(attempts) = 1
    /\ attempts[1].tier = "MEDIUM"
    /\ pc = "fetch"

C25_OnlyReservedIdsForce ==
    pc = "done" =>
        LET words == {<<"sim", "ple">>, <<"medium">>, <<"complex">>, <<"reasoning">>}
            id == toLowerCase(body.model)
            word == IF Len(id) >= 2 /\ body.model[1] = "claw-llm-router/"
                      THEN SubSeq(id, 2, Len(id)) ELSE id
        IN IF word \in words
             THEN tier = CASE word = <<"sim", "ple">> -> "SIMPLE"
                           [] word = <<"medium">>     -> "MEDIUM"
                           [] word = <<"complex">>    -> "COMPLEX"
                           [] word = <<"reasoning">>  -> "REASONING"
             ELSE tier = "none"

(* C26: a consume with prompt Q returns an entry exactly when a set that is *)
(* still in the store and not expired was made with a prompt P that agrees  *)
(* with Q on the first 500 characters (KeyLen blocks), and it returns that  *)
(* set's model and provider.                                                *)
C26_KeyedByFirst500 ==
    lastConsume.done =>
        LET Q == lastConsume.prompt
            agree(P) == \A i \in 1..KeyLen :
                            /\ (i <= Len(P)) <=> (i <= Len(Q))
                            /\ i <= Len(P) => P[i] = Q[i]
            hits == {s \in lastConsume.live : agree(s.prompt)}
        IN /\ lastConsume.result.found <=> hits # {}
           /\ lastConsume.result.found =>
                 \E s \in hits : /\ lastConsume.result.model = s.model
                                  /\ lastConsume.result.provider = s.provider

C26_Witness ==
    /\ lastConsume.done
    /\ lastConsume.result.found
    /\ lastConsume.prompt = <<"a", "b">>
    /\ \E s \in lastConsume.live : s.prompt = <<"a", "b", "c">>
    /\ \E s \in lastConsume.live : s.prompt = <<"a">>

C29_PassThroughPayloadIsAllowListed ==
    (pc = "fetch" /\ cur.strategy = "openai-compatible") =>
        LET payload == cur.sent.payload
        IN /\ DOMAIN payload \subseteq ALLOWED_PARAMS
           /\ DOMAIN payload = (DOMAIN body \cap ALLOWED_PARAMS) \cup {"model", "stream"}
           /\ \A k \in (DOMAIN body \cap ALLOWED_PARAMS) \ {"model", "stream"} :
                  payload[k] = body[k]
           /\ payload.model = CurSpec.modelId
           /\ payload.stream = streamOf(body)

C29_Witness ==
    /\ pc = "fetch"
    /\ cur.strategy = "openai-compatible"
    /\ {"model", "store", "metadata", "temperature"} \subseteq DOMAIN body
    /\ DOMAIN cur.sent.payload \cap {"store", "metadata"} = {}
    /\ cur.sent.payload.temperature = body.temperature
    /\ cur.sent.payload.model # body.model

(* C30: classify tests its overrides in a fixed order and the first that    *)
(* matches decides alone: more than 100,000 estimated tokens give COMPLEX   *)
(* with confidence 0.95 whatever else the prompt holds; failing that, two   *)
(* or more reasoning markers give REASONING; failing that, four or more     *)
(* technical, imperative and agentic hits together with a multi-step        *)
(* pattern or more than 300 characters give COMPLEX.                        *)
C30_OverridesInOrder ==
    (pc = "done" /\ classification.called) =>
        LET tokens == userText.length \div 4
            hits == userText.technical + userText.imperative + userText.agentic
        IN IF tokens > 100000
             THEN classification.tier = "COMPLEX" /\ classification.confidence = 95
           ELSE IF userText.reasoning >= 2
             THEN classification.tier = "REASONING"
           ELSE (hits >= 4 /\ (userText.multiStep \/ userText.length > 300)) =>
                  classification.tier = "COMPLEX"

C30_Witness ==
    /\ pc = "done"
    /\ classification.called
    /\ userText.length \div 4 > 100000
    /\ userText.reasoning >= 2
    /\ userText.score = -10
    /\ classification.tier = "COMPLEX"
    /\ classification.confidence = 95

(* C31 as stated: a prompt with two or more reasoning markers is always     *)
(* REASONING with confidence at least 0.85.                                 *)
C31_ReasoningMarkersAlwaysReasoning ==
    (pc = "done" /\ classification.called /\ userText.reasoning >= 2) =>
        /\ classification.tier = "REASONING"
        /\ classification.confidence >= 85

(* C31 amended: a prompt of at most 100,000 estimated tokens with two or    *)
(* more reasoning markers is REASONING with confidence at least 0.85,       *)
(* whatever its weighted score; a longer one is COMPLEX.                    *)
C31_ReasoningMarkersUnlessLargeContext ==
    (pc = "done" /\ classification.called /\ userText.reasoning >= 2) =>
        IF userText.length \div 4 <= 100000
          THEN classification.tier = "REASONING" /\ classification.confidence >= 85
          ELSE classification.tier = "COMPLEX"

C31_Witness ==
    /\ pc = "done"
    /\ classification.called
    /\ userText.reasoning >= 2
    /\ userText.length \div 4 <= 100000
    /\ userText.score < 0
    /\ classification.tier = "REASONING"
    /\ classification.confidence = 85

(* C32 as stated: in the weighted sum only the simple-phrase dimension is   *)
(* ever negative; every other dimension contributes 0 or more.              *)
C32_OnlySimpleIndicatorsNegative ==
    pc = "scored" =>
        \A d \in DOMAIN WEIGHTS \ {"simpleIndicators"} : classification.terms[d] >= 0

(* C32 amended: the simple-phrase dimension and the token-count dimension   *)
(* are the two that can be negative (a simple phrase present; fewer than    *)
(* 50 estimated tokens); each of the other thirteen contributes 0 or more   *)
(* for every prompt.                                                        *)
C32_OnlySimpleAndTokenCountNegative ==
    pc = "scored" =>
        /\ \A d \in DOMAIN WEIGHTS \ {"simpleIndicators", "tokenCount"} :
               classification.dimScores[d] >= 0 /\ classification.terms[d] >= 0
        /\ classification.terms.simpleIndicators < 0 <=> userText.simple >= 1
        /\ classification.terms.tokenCount < 0 <=> userText.length \div 4 < 50
        /\ classification.terms.simpleIndicators <= 0

C32_Witness ==
    /\ pc = "scored"
    /\ userText.length \div 4 < 50
    /\ userText.negation >= 2
    /\ classification.terms.tokenCount = -800
    /\ classification.terms.negationComplexity > 0

C34_EachSessionGetsItsOwnBackend ==
    \A c \in Calls : \A d \in Calls \ {c} :
        (/\ sessions[c].hooked /\ sessions[c].inTime
         /\ sessions[c].prompt # <<>>
         /\ sessions[d].phase # "idle"
         /\ makeKey(sessions[d].prompt) = makeKey(sessions[c].prompt)
         /\ <<sessions[d].provider, sessions[d].model>>
              # <<sessions[c].provider, sessions[c].model>>
         /\ sessions[0].phase = "idle") =>
            sessions[c].got = [found |-> TRUE, model |-> sessions[c].model,
                               provider |-> sessions[c].provider]

(* C35: whatever the messages of its body, the override a                   *)
(* delegated-with-override call wrote is what the hook of the session it    *)
(* creates finds and consumes (the call being the only one, the hook        *)
(* running within the TTL).                                                 *)
C35_OverrideReachesOwnSession ==
    \A c \in Calls :
        (/\ sessions[c].hooked /\ sessions[c].inTime
         /\ \A d \in Calls \ {c} : sessions[d].phase = "idle"
         /\ sessions[0].phase = "idle") =>
            sessions[c].got = [found |-> TRUE, model |-> sessions[c].model,
                               provider |-> sessions[c].provider]

(* C36: a session that no delegated call created, starting when no          *)
(* delegated call is in flight, never gets an override: a call that ended   *)
(* without its override consumed has left none behind.                      *)
C36_NoOverrideLeftForOtherSession ==
    (sessions[0].hooked /\ sessions[0].alone) => ~sessions[0].got.found

(* C37: after an attempt has written to the caller's response (head or      *)
(* body) and failed, no later tier's provider is called for the request.    *)
C37_NoUpstreamCallAfterWrite ==
    \A i \in DOMAIN attempts : \A j \in DOMAIN attempts :
        (i < j /\ attempts[i].outcome = "failed" /\ attempts[i].wrote) =>
            attempts[j].strategy = "none"

(* C38: with every upstream call returning or failing, a chat-completion    *)
(* request that has been parsed reaches a terminal outcome, SUCCESS or      *)
(* EXHAUSTED, with the caller's response ended.                             *)
C38_RequestEndsInSuccessOrExhausted ==
    (pc = "resolve") ~>
        (pc = "done" /\ res.writableEnded /\ outcome \in {"success", "exhausted"})

(* C40: within one request no tier is attempted twice and at most three     *)
(* attempts are made: the walk over the fallback chain only moves forward   *)
(* and ends with the chain.                                                 *)
C40_EachTierAtMostOnce ==
    /\ Len(attempts) <= 3
    /\ \A i \in DOMAIN attempts : \A j \in DOMAIN attempts :
          i # j => attempts[i].tier # attempts[j].tier
    /\ pc \in {"loop", "fetch", "stream"} => idx >= Len(attempts)

C40_Witness ==
    /\ pc = "done"
    /\ outcome = "exhausted"
    /\ Len(attempts) = 3
    /\ \A i \in DOMAIN attempts : attempts[i].strategy # "none"


(* C39: for a fixed upstream body, what the native adapter's stream         *)
(* translation has written to the caller when it is over is what it writes  *)
(* for the body read in one piece, however the body was split into reads,   *)
(* a split inside an event line included.                                   *)
C39_TranslationIndependentOfChunking ==
    reader.phase \in {"done", "threw"} =>
        res.out = writtenInOneRead(reader.fn, reader.text)

(* An event line arrived in more than one read and its event was written. *)
C39_Witness ==
    /\ reader.phase = "done"
    /\ reader.fn = "convertAnthropicStream"
    /\ reader.inside
    /\ reader.text = <<"data: ", "{message_start", "}", LF,
                       "data: ", "{content_block_delta", "}", LF>>
    /\ reader.reads = Len(reader.text)
    /\ Len(res.out) = 2

====
